---- MODULE Spec2Model ----
(***************************************************************************)
(* Model of nodecat (kevinoid/nodecat): the streaming concatenation engine *)
(* of index.js and the Node.js stream events it reacts to.                 *)
(*                                                                         *)
(* JavaScript is single threaded: every listener runs to completion, so    *)
(* each action below is one whole event dispatch (the emit, every listener *)
(* it calls and everything those listeners call).  The engine's handlers   *)
(* are operators on a record E holding the closure variables of nodecat()  *)
(* and the state of the streams it touches.                                *)
(*                                                                         *)
(* Streams: caller-supplied streams are 1..NStreams; the stream made by    *)
(* fs.createReadStream at position p of fileNames is NStreams + p.  Every  *)
(* failure event carries a freshly created plain Error object.             *)
(***************************************************************************)
EXTENDS Integers, Sequences, FiniteSets, TLC

\* ---------------------------------------------------------------- bounds
MaxNames == 3
NStreams == 2
DataLen == 1
MaxInErrors == 3
MaxOutErrors == 2
\* The most tokens the command is given after the two of the runtime.
MaxArgs == 3
\* The most AggregateError objects constructed, the most members pushed to
\* one, the most toString calls made from outside, and the most toString
\* calls the stack holds before a further call throws a RangeError.
MaxAggs == 2
MaxMembers == 2
MaxCalls == 2
MaxStack == 3

Names == {"-", "a"}
NoName == "<undefined>"
NoStream == 0

CallerIds == 1..NStreams
StreamIds == 1..(NStreams + MaxNames)
OutStream == NStreams + MaxNames + 1

VARIABLES
  args,               \* the arguments of the call: fileNames, options, callback
  globalPromise,      \* typeof global.Promise, "absent" when it is not declared
  returned,           \* what the call returned or threw
  promise,            \* the Promise made by the call
  ticks,              \* errors waiting in process.nextTick for callback(err)
  fileNames,          \* the elements of the argument fileNames
  callerStreams,      \* options.fileStreams: name -> stream (NoStream: no entry)
  pc,                 \* "init" before the call, "called" after nodecat() returned
  i,                  \* cursor of catNext
  errNodecat,         \* error which will be returned from nodecat
  callerStreamEnded,  \* names marked in callerStreamEnded
  inCleanup,          \* position whose closure inCleanup refers to (0: undefined)
  listeners,          \* engine listeners registered on input streams
  outListener,        \* onOutError registered on outStream
  pipes,              \* number of pipes from each stream to outStream
  started,            \* streams that have been piped at least once
  remaining,          \* data each stream has yet to emit
  endEmitted,         \* streams that have emitted 'end'
  outBytes,           \* bytes written to outStream
  errLines,           \* lines written to errStream
  callbacks,          \* arguments of the calls of callback, in order
  opened,             \* positions for which an input was obtained and piped
  endOnEnd,           \* streams piped to outStream without {end: false}
  closed,             \* streams the engine ended or destroyed
  linesAtCallback,    \* history: lines written to errStream at each call of callback
  inErrCount,         \* input 'error' events emitted so far
  outErrCount,        \* output 'error' events emitted so far
  cmd,                \* the command: its arguments, queued microtasks and reports
  render,             \* the AggregateError objects, the counter level, the last toString call
  signals,            \* history: the live 'end' and 'error' events so far
  lastEv              \* history: the last event dispatched

vars == <<args, globalPromise, returned, promise, ticks, fileNames, callerStreams, pc, i, errNodecat, callerStreamEnded,
          inCleanup, listeners, outListener, pipes, started, remaining,
          endEmitted, outBytes, errLines, callbacks, opened, endOnEnd, closed,
          linesAtCallback, cmd, render, inErrCount, outErrCount, signals, lastEv>>

\* ------------------------------------------------------------ sequences
SeqsUpTo(S, n) == UNION {[1..k -> S] : k \in 0..n}

RECURSIVE Repeat(_, _)
Repeat(s, n) == IF n <= 0 THEN <<>> ELSE s \o Repeat(s, n - 1)

\* ---------------------------------------------------------------- data
\* One byte of an input: which file or caller stream it belongs to, and its
\* offset there.
Byte(file, stream, k) == [file |-> file, stream |-> stream, k |-> k]
\* The file at path undefined cannot be opened: its stream carries nothing.
FileBytes(name) == IF name = NoName THEN <<>>
                   ELSE [k \in 1..DataLen |-> Byte(name, NoStream, k)]
StreamBytes(s) == [k \in 1..DataLen |-> Byte(NoName, s, k)]

\* ------------------------------------------------------------ JS values
\* A value is a record of its typeof, its truthiness and its properties.
Undefined == [typeof |-> "undefined", truthy |-> FALSE]
Null == [typeof |-> "object", truthy |-> FALSE]
TrueValue == [typeof |-> "boolean", truthy |-> TRUE]
Function == [typeof |-> "function", truthy |-> TRUE]
EmptyObject == [typeof |-> "object", truthy |-> TRUE]
\* Numbers: an integer n, n + 1/2, Infinity or NaN.
Whole(n) == [typeof |-> "number", num |-> "int", n |-> n, truthy |-> n # 0]
Half(n) == [typeof |-> "number", num |-> "half", n |-> n, truthy |-> TRUE]
NaN == [typeof |-> "number", num |-> "nan", truthy |-> FALSE]
Infinity == [typeof |-> "number", num |-> "inf", truthy |-> TRUE]

Get(v, prop) == IF prop \in DOMAIN v THEN v[prop] ELSE Undefined
And(a, b) == IF a.truthy THEN b ELSE a
Or(a, b) == IF a.truthy THEN a ELSE b
floor(v) == IF v.typeof # "number" THEN NaN
            ELSE IF v.num = "half" THEN Whole(v.n) ELSE v
StrictNotEqual(a, b) == a = NaN \/ b = NaN \/ a # b

\* Argument values.
ArrayOf(seq) == [typeof |-> "object", truthy |-> TRUE, length |-> Whole(Len(seq))]
StringValue == [typeof |-> "string", truthy |-> TRUE, length |-> Whole(8)]
NoLengthObject == EmptyObject
HalfLengthObject == [typeof |-> "object", truthy |-> TRUE, length |-> Half(1)]
NaNLengthObject == [typeof |-> "object", truthy |-> TRUE, length |-> NaN]
\* An object with length Infinity and no elements: every index reads undefined.
EndlessObject == [typeof |-> "object", truthy |-> TRUE, length |-> Infinity]
\* new stream.Writable() and new stream.Readable(): both inherit pipe from
\* stream.Stream, only the first has write.
Writable == [typeof |-> "object", truthy |-> TRUE, write |-> Function, pipe |-> Function]
Readable == [typeof |-> "object", truthy |-> TRUE, pipe |-> Function]
stdout == Writable
stderr == Writable
Options(fs, out, err) ==
  [typeof |-> "object", truthy |-> TRUE, fileStreams |-> fs, outStream |-> out,
   errStream |-> err]

TypeError(message) == [kind |-> "TypeError", message |-> message]
ReferenceError(message) == [kind |-> "ReferenceError", message |-> message]
NoError == [kind |-> "none"]
Mentions(err, word) == \E k \in 1..Len(err.message) : err.message[k] = word

\* Mutant: options.outStream is checked before options.fileStreams.
Validate_outStreamFirst(fileNamesV, options) ==
  LET callerStreamsV == Or(And(options, Get(options, "fileStreams")), EmptyObject)
      errStream == Or(And(options, Get(options, "errStream")), stderr)
      outStream == Or(And(options, Get(options, "outStream")), stdout)
  IN IF \/ ~fileNamesV.truthy
        \/ fileNamesV.typeof # "object"
        \/ StrictNotEqual(Get(fileNamesV, "length"), floor(Get(fileNamesV, "length")))
     THEN TypeError(<<"fileNames", "must", "be", "an", "Array-like", "object">>)
     ELSE IF options.truthy /\ options.typeof # "object"
     THEN TypeError(<<"options", "must", "be", "an", "object">>)
     ELSE IF Get(outStream, "write").typeof # "function"
     THEN TypeError(<<"options.outStream", "must", "be", "a", "stream.Writable">>)
     ELSE IF callerStreamsV.typeof # "object"
     THEN TypeError(<<"options.fileStreams", "must", "be", "an", "object">>)
     ELSE IF Get(errStream, "write").typeof # "function"
     THEN TypeError(<<"options.errStream", "must", "be", "a", "stream.Writable">>)
     ELSE NoError

\* The checks of the try block of nodecat, in order: the TypeError thrown, or
\* NoError.
Validate(fileNamesV, options) ==
  LET callerStreamsV == Or(And(options, Get(options, "fileStreams")), EmptyObject)
      errStream == Or(And(options, Get(options, "errStream")), stderr)
      outStream == Or(And(options, Get(options, "outStream")), stdout)
  IN IF \/ ~fileNamesV.truthy
        \/ fileNamesV.typeof # "object"
        \/ StrictNotEqual(Get(fileNamesV, "length"), floor(Get(fileNamesV, "length")))
     THEN TypeError(<<"fileNames", "must", "be", "an", "Array-like", "object">>)
     ELSE IF options.truthy /\ options.typeof # "object"
     THEN TypeError(<<"options", "must", "be", "an", "object">>)
     ELSE IF callerStreamsV.typeof # "object"
     THEN TypeError(<<"options.fileStreams", "must", "be", "an", "object">>)
     ELSE IF Get(outStream, "write").typeof # "function"
     THEN TypeError(<<"options.outStream", "must", "be", "a", "stream.Writable">>)
     ELSE IF Get(errStream, "write").typeof # "function"
     THEN TypeError(<<"options.errStream", "must", "be", "a", "stream.Writable">>)
     ELSE NoError

\* The first lines of nodecat: a function given as options is the callback.
Shifted == ~args.callback.truthy /\ args.options.typeof = "function"
CallbackArg == IF Shifted THEN args.options ELSE args.callback
OptionsArg == IF Shifted THEN Null ELSE args.options
\* Without a callback the call returns a Promise whose executor calls nodecat
\* again with a callback that settles it.
PromiseMode == ~CallbackArg.truthy

\* ---------------------------------------------------------------- errors
NullErr == [kind |-> "null", id |-> 0, fileName |-> NoName, errors |-> <<>>]
NewError(id) == [kind |-> "error", id |-> id, fileName |-> NoName, errors |-> <<>>]
NewAggregateError == [kind |-> "aggregate", id |-> 0, fileName |-> NoName, errors |-> <<>>]
\* Mutant: the new member is stored over the last one.
push_overLast(agg, err) ==
  [agg EXCEPT !.errors = IF @ = <<>> THEN <<err>> ELSE [@ EXCEPT ![Len(@)] = err]]

\* Array.prototype.push on the AggregateError: this[length] = err; length += 1
push(agg, err) == [agg EXCEPT !.errors = Append(@, err)]
length(agg) == Len(agg.errors)

\* The other methods copied from Array.prototype that change the members
\* (indexes count from 1 here, from 0 in the arguments).
\* pop(): removes the last member, if there is one.
pop(agg) == [agg EXCEPT !.errors = SubSeq(@, 1, Len(@) - 1)]
\* shift(): removes the first member, if there is one.
shift(agg) == [agg EXCEPT !.errors = SubSeq(@, 2, Len(@))]
\* unshift(err): puts err before the members.
unshift(agg, err) == [agg EXCEPT !.errors = <<err>> \o @]
\* reverse()
reverse(agg) == [agg EXCEPT !.errors = [k \in 1..Len(@) |-> @[Len(@) + 1 - k]]]
\* splice(start, deleteCount) with 0 <= start <= length and
\* 0 <= deleteCount <= length - start: removes deleteCount members from
\* index start on.
splice(agg, start, deleteCount) ==
  [agg EXCEPT !.errors = SubSeq(@, 1, start) \o SubSeq(@, start + deleteCount + 1, Len(@))]
\* fill(err): every member becomes err.
fill(agg, err) == [agg EXCEPT !.errors = [k \in 1..Len(@) |-> err]]
\* copyWithin(target, start) with 0 <= target, start < length: the members
\* from index start on are copied over those from index target on, as far
\* as both reach.
copyWithin(agg, target, start) ==
  LET len == Len(agg.errors)
      count == IF len - start < len - target THEN len - start ELSE len - target
  IN [agg EXCEPT !.errors = [k \in 1..len |->
                               IF k > target /\ k <= target + count
                               THEN @[k - target + start] ELSE @[k]]]
\* sort() without a comparison function orders the members by their
\* conversion to a string; for Errors that is the order of their messages.
sort(agg) ==
  LET seq == agg.errors
      Count(t, e) == Cardinality({k \in 1..Len(seq) : t[k] = e})
  IN [agg EXCEPT !.errors =
        CHOOSE t \in [1..Len(seq) -> {seq[k] : k \in 1..Len(seq)}] :
          /\ \A k \in 1..(Len(seq) - 1) : t[k].id <= t[k + 1].id
          /\ \A e \in {seq[k] : k \in 1..Len(seq)} : Count(t, e) = Count(seq, e)]
\* length = n with 0 <= n <= length: the members from index n on are deleted.
setLength(agg, n) == [agg EXCEPT !.errors = SubSeq(@, 1, n)]
Message(err) == <<"message", err.id>>
ErrorToString(err) == <<"Error: ", Message(err)>>

\* No AggregateError object is looked at: the module was just loaded.
NoCall == [agg |-> 0, entry |-> 0, thrown |-> NoError, lines |-> <<>>]
NoPush == [agg |-> 0, member |-> NoError]
NoRender == [heap |-> <<>>, level |-> 0, calls |-> 0, pushed |-> NoPush, last |-> NoCall]

\* Mutant: the first error wins, later errors are dropped.
combineErrors_first(errPrev, errNew) ==
  IF errPrev.kind = "null" THEN errNew ELSE errPrev

\* Mutant: the previous result is wrapped again at every further error.
combineErrors_nest(errPrev, errNew) ==
  IF errPrev.kind = "null" THEN errNew
  ELSE push(push(NewAggregateError, errPrev), errNew)

combineErrors(errPrev, errNew) ==
  IF errPrev.kind = "null" THEN errNew
  ELSE LET errCombined == IF errPrev.kind = "aggregate" THEN errPrev
                          ELSE push(NewAggregateError, errPrev)
       IN push(errCombined, errNew)

\* ------------------------------------------------------ engine handlers
\* The stream the closure of catNext at position p reads.
\* callerStreams[fileName]: undefined for a name that is not a property.
callerStreamOf(fileName) ==
  IF fileName \in DOMAIN callerStreams THEN callerStreams[fileName] ELSE NoStream
callerStreamAt(p) == callerStreamOf(fileNames[p])
createReadStream(p) == NStreams + p
inStreamAt(p) == IF callerStreamAt(p) # NoStream THEN callerStreamAt(p)
                 ELSE createReadStream(p)

\* callerStreams and callerStreamEnded are plain objects: a name that is a
\* property of Object.prototype reads as that property (a function, truthy)
\* where the object has no property of its own.
PrototypeNames == {"constructor"}
Inherits(fileName) == fileName \in PrototypeNames
\* callerStream, as the condition of an if
hasCallerStream(fileName) == callerStreamOf(fileName) # NoStream \/ Inherits(fileName)
\* callerStreamEnded[fileName], as the condition of an if
isEnded(E, fileName) == fileName \in E.callerStreamEnded \/ Inherits(fileName)

Listener(s, ev, p) == [stream |-> s, ev |-> ev, pos |-> p]

\* A Promise settles on the first call of resolve or reject only.
Pending == [state |-> "pending", value |-> NoError, calls |-> 0]
NoPromise == [state |-> "none", value |-> NoError, calls |-> 0]
resolve(E, v) ==
  [E EXCEPT !.promise = [state |-> IF @.state = "pending" THEN "resolved" ELSE @.state,
                         value |-> IF @.state = "pending" THEN v ELSE @.value,
                         calls |-> @.calls + 1]]
reject(E, v) ==
  [E EXCEPT !.promise = [state |-> IF @.state = "pending" THEN "rejected" ELSE @.state,
                         value |-> IF @.state = "pending" THEN v ELSE @.value,
                         calls |-> @.calls + 1]]

\* Errors are truthy, null is not.
Truthy(err) == err.kind \notin {"null", "none"}

\* Mutant: the Promise is resolved whatever the result.
settle_alwaysResolve(E, err) == resolve(E, NoError)

\* function(err, result) { if (err) { reject(err); } else { resolve(result); } }
settle(E, err) == IF Truthy(err) THEN reject(E, err) ELSE resolve(E, NoError)

\* ---------------------------------------------------- command callback
\* The call is nodecat(...) of the library ("api") or nodecatCmd(args,
\* options, callback) of bin/nodecat.js ("command").  args are the tokens of
\* process.argv, passed and fileStreams the fileNames and the
\* options.fileStreams given to nodecat, microtasks the calls
\* of the command's callback waiting in queueMicrotask, and reports the calls
\* of the command's callback made so far.
NoCmd == [mode |-> "api", args |-> <<>>, options |-> Undefined,
          callback |-> Undefined, passed |-> <<>>, fileStreams |-> <<>>,
          microtasks |-> <<>>,
          reports |-> <<>>]

\* The first lines of nodecatCmd: a function given as options is the callback.
CmdShifted == ~cmd.callback.truthy /\ cmd.options.typeof = "function"
CmdCallbackArg == IF CmdShifted THEN cmd.options ELSE cmd.callback
CmdOptionsArg == IF CmdShifted THEN Undefined ELSE cmd.options
\* !callback && typeof Promise === 'function'
CmdPromiseMode == ~CmdCallbackArg.truthy /\ globalPromise = "function"

\* callback(err) has no result, callback(null, code) has one.
NoResult == <<>>
Result(code) == <<code>>
Report(err, result) == [err |-> err, result |-> result]

\* callback(err, result) of nodecatCmd: the caller's function, or
\* (err, result) => { if (err) { reject(err); } else { resolve(result); } }
cmdCallback(E, err, result) ==
  LET E1 == [E EXCEPT !.cmd.reports = Append(@, Report(err, result))]
  IN IF ~CmdPromiseMode THEN E1
     ELSE IF Truthy(err) THEN reject(E1, err)
     ELSE resolve(E1, [kind |-> "result", result |-> result])

\* Mutant: the exit code is 0 whatever the engine reports.
exitCode_zero(err) == 0

\* err ? 1 : 0
exitCode(err) == IF Truthy(err) THEN 1 ELSE 0

\* Mutant: the engine's error is handed on as the error of the command.
engineCallback_propagate(E, err) == cmdCallback(E, err, Result(exitCode(err)))

\* (err) => { callback(null, err ? 1 : 0); }
engineCallback(E, err) == cmdCallback(E, NullErr, Result(exitCode(err)))

\* callback(err): the caller's function, the one that settles the Promise, or
\* the one nodecatCmd gave.
callback(E, err) ==
  LET E1 == [E EXCEPT !.callbacks = Append(@, err),
                      !.linesAtCallback = Append(@, Len(E.errLines))]
  IN IF E.cmd.mode = "command" THEN engineCallback(E1, err)
     ELSE IF PromiseMode THEN settle(E1, err) ELSE E1

\* Mutant: the output listener is left registered.
allDone_keepListener(E) == callback(E, E.errNodecat)

\* Mutant: the callback is not called.
allDone_noCallback(E) == [E EXCEPT !.outListener = FALSE]

allDone(E) == callback([E EXCEPT !.outListener = FALSE], E.errNodecat)

\* Mutant: inCleanup removes no listener.
cleanup_none(E, p) == E

\* The function stored in inCleanup by the closure of position p; done and
\* onOutError call the one the variable holds when they run.
cleanup(E, p) ==
  [E EXCEPT !.listeners = @ \ {Listener(inStreamAt(p), "error", p),
                               Listener(inStreamAt(p), "end", p)}]

\* Mutant: the input in flight keeps its listeners and the cursor keeps going.
onOutError_noCleanup(E, err) ==
  LET E1 == [E EXCEPT !.errNodecat = combineErrors(@, err),
                      !.errLines = Append(@, <<"nodecat: ", ErrorToString(err), "\n">>)]
  IN allDone(E1)

\* Mutant: the output error replaces what was recorded before.
onOutError_replace(E, err) ==
  LET E1 == [E EXCEPT !.errNodecat = err,
                      !.errLines = Append(@, <<"nodecat: ", ErrorToString(err), "\n">>)]
      E2 == IF E1.inCleanup # 0 THEN cleanup(E1, E1.inCleanup) ELSE E1
  IN allDone(E2)

\* Mutant: the line is written to errStream after the callback was called.
onOutError_lineAfter(E, err) ==
  LET E1 == [E EXCEPT !.errNodecat = combineErrors(@, err)]
      E2 == IF E1.inCleanup # 0 THEN cleanup(E1, E1.inCleanup) ELSE E1
  IN [allDone(E2) EXCEPT !.errLines = Append(@, <<"nodecat: ", ErrorToString(err), "\n">>)]

onOutError(E, err) ==
  LET E1 == [E EXCEPT !.errNodecat = combineErrors(@, err),
                      !.errLines = Append(@, <<"nodecat: ", ErrorToString(err), "\n">>)]
      E2 == IF E1.inCleanup # 0 THEN cleanup(E1, E1.inCleanup) ELSE E1
  IN allDone(E2)

\* Mutant: the input is started but never connected to outStream.
pipe_detached(E, s) == [E EXCEPT !.started = @ \cup {s}]

\* Mutant: the pipe is made without {end: false}.
pipe_end(E, s) ==
  [E EXCEPT !.pipes[s] = @ + 1, !.started = @ \cup {s}, !.endOnEnd = @ \cup {s}]

\* inStream.pipe(outStream, {end: false})
pipe(E, s) == [E EXCEPT !.pipes[s] = @ + 1, !.started = @ \cup {s}]
\* inStream.unpipe(outStream) removes one pipe to outStream, if there is one
\* (every stream of the model has an unpipe method).
unpipe(E, s) == [E EXCEPT !.pipes[s] = IF @ > 0 THEN @ - 1 ELSE 0]

RECURSIVE catNext(_)
\* Mutant: a name that occurred before is skipped, whether or not the caller
\* supplied a stream for it.
catNext_readOnce(E) ==
  IF E.i >= Len(fileNames) THEN allDone(E)
  ELSE LET p == E.i + 1
           fileName == fileNames[p]
           E1 == [E EXCEPT !.i = @ + 1]
           callerStream == callerStreamOf(fileName)
       IN IF \E q \in 1..E.i : fileNames[q] = fileName
          THEN catNext(E1)
          ELSE LET inStream == inStreamAt(p)
                   E2 == [E1 EXCEPT
                            !.inCleanup = p,
                            !.opened = Append(@, p),
                            !.remaining[inStream] =
                               IF callerStream # NoStream THEN @ ELSE FileBytes(fileName),
                            !.listeners = @ \cup {Listener(inStream, "error", p),
                                                  Listener(inStream, "end", p)}]
               IN pipe(E2, inStream)

catNext(E) ==
  IF E.i >= Len(fileNames) THEN allDone(E)
  ELSE LET p == E.i + 1
           fileName == fileNames[p]
           E1 == [E EXCEPT !.i = @ + 1]
           callerStream == callerStreamOf(fileName)
       IN IF hasCallerStream(fileName) /\ isEnded(E1, fileName)
          THEN catNext(E1)
          ELSE LET inStream == inStreamAt(p)
                   E2 == [E1 EXCEPT
                            !.inCleanup = p,
                            !.opened = Append(@, p),
                            !.remaining[inStream] =
                               IF callerStream # NoStream THEN @ ELSE FileBytes(fileName),
                            !.listeners = @ \cup {Listener(inStream, "error", p),
                                                  Listener(inStream, "end", p)}]
               IN pipe(E2, inStream)

\* Mutant: a finished caller stream is not marked as ended.
done_noMark(E, p) == catNext(cleanup(E, E.inCleanup))

\* Mutant: the next input is never started.
done_noNext(E, p) ==
  LET E1 == IF callerStreamAt(p) # NoStream
            THEN [E EXCEPT !.callerStreamEnded = @ \cup {fileNames[p]}]
            ELSE E
  IN cleanup(E1, E1.inCleanup)

done(E, p) ==
  LET E1 == IF callerStreamAt(p) # NoStream
            THEN [E EXCEPT !.callerStreamEnded = @ \cup {fileNames[p]}]
            ELSE E
  IN catNext(cleanup(E1, E1.inCleanup))

\* Mutant: the error is written to errStream but not kept in the result.
onInError_noRecord(E, p, err) ==
  LET fileName == fileNames[p]
      E1 == [E EXCEPT !.errLines = Append(@, <<"nodecat: ", fileName, ": ", Message(err), "\n">>)]
      E2 == unpipe(E1, inStreamAt(p))
  IN done(E2, p)

\* Mutant: the failed input stays piped to outStream.
onInError_noUnpipe(E, p, err) ==
  LET fileName == fileNames[p]
      errNamed == [err EXCEPT !.fileName = fileName]
      E1 == [E EXCEPT !.errNodecat = combineErrors(@, errNamed),
                      !.errLines = Append(@, <<"nodecat: ", fileName, ": ", Message(err), "\n">>)]
  IN done(E1, p)

\* Mutant: the error is not marked with the name of its file.
onInError_noName(E, p, err) ==
  LET fileName == fileNames[p]
      E1 == [E EXCEPT !.errNodecat = combineErrors(@, err),
                      !.errLines = Append(@, <<"nodecat: ", fileName, ": ", Message(err), "\n">>)]
      E2 == unpipe(E1, inStreamAt(p))
  IN done(E2, p)

onInError(E, p, err) ==
  LET fileName == fileNames[p]
      errNamed == [err EXCEPT !.fileName = fileName]
      E1 == [E EXCEPT !.errNodecat = combineErrors(@, errNamed),
                      !.errLines = Append(@, <<"nodecat: ", fileName, ": ", Message(err), "\n">>)]
      E2 == unpipe(E1, inStreamAt(p))
  IN done(E2, p)

\* ------------------------------------------------------ event dispatch
\* EventEmitter.emit: the listeners registered when the event is emitted are
\* called in registration order (positions are registered in increasing
\* order); a once() listener is removed before it is called.
ListenersOf(E, s, ev) == {l \in E.listeners : l.stream = s /\ l.ev = ev}

RECURSIVE dispatch(_, _, _)
dispatch(E, ls, err) ==
  IF ls = {} THEN E
  ELSE LET l == CHOOSE x \in ls : \A y \in ls : x.pos <= y.pos
           E1 == [E EXCEPT !.listeners = @ \ {l}]
           E2 == IF l.ev = "error" THEN onInError(E1, l.pos, err)
                 ELSE done(E1, l.pos)
       IN dispatch(E2, ls \ {l}, err)

emit(E, s, ev, err) == dispatch(E, ListenersOf(E, s, ev), err)

\* ---------------------------------------------------------------- state
Cur ==
  [i |-> i, errNodecat |-> errNodecat, callerStreamEnded |-> callerStreamEnded,
   inCleanup |-> inCleanup, listeners |-> listeners, outListener |-> outListener,
   pipes |-> pipes, started |-> started, remaining |-> remaining,
   errLines |-> errLines, callbacks |-> callbacks, opened |-> opened,
   promise |-> promise, endOnEnd |-> endOnEnd, closed |-> closed,
   linesAtCallback |-> linesAtCallback, cmd |-> cmd, render |-> render]

Become(E) ==
  /\ i' = E.i
  /\ errNodecat' = E.errNodecat
  /\ callerStreamEnded' = E.callerStreamEnded
  /\ inCleanup' = E.inCleanup
  /\ listeners' = E.listeners
  /\ outListener' = E.outListener
  /\ pipes' = E.pipes
  /\ started' = E.started
  /\ remaining' = E.remaining
  /\ errLines' = E.errLines
  /\ callbacks' = E.callbacks
  /\ opened' = E.opened
  /\ promise' = E.promise
  /\ endOnEnd' = E.endOnEnd
  /\ closed' = E.closed
  /\ linesAtCallback' = E.linesAtCallback
  /\ cmd' = E.cmd
  /\ render' = E.render

\* An 'end' or 'error' event of stream s is live when it is emitted before
\* completion by the input at the cursor; an 'error' event of outStream is
\* live when it is emitted before completion.
Live(type, s) ==
  /\ callbacks = <<>>
  /\ \/ type = "outerror" /\ outListener
     \/ type \in {"end", "error"} /\ i >= 1 /\ inStreamAt(i) = s

\* History record of the last event: its type and stream, whether it was live
\* and whether the callback had been called before it.
Event(type, s) ==
  [type |-> type, stream |-> s, live |-> Live(type, s), late |-> callbacks # <<>>]

\* History record of a live 'end' or 'error' event: the stream, the id of the
\* Error it carries (0 for 'end'), the cursor and the number of bytes written
\* when it is emitted.
Signal(type, s, id) ==
  [type |-> type, stream |-> s, id |-> id, pos |-> i, outLen |-> Len(outBytes)]

Log(type, s, id) ==
  IF Live(type, s) THEN Append(signals, Signal(type, s, id)) ELSE signals

\* options.fileStreams: some names mapped to the caller's streams, which are
\* numbered 1..n for some n <= NStreams.
FileStreamMaps ==
  {m \in [Names -> {NoStream} \cup CallerIds] :
     \A s \in CallerIds : (\E n \in Names : m[n] = s) =>
        \A r \in 1..s : \E n \in Names : m[n] = r}

NoFileStreams == [n \in Names |-> NoStream]

\* Calls whose arguments are well formed: any names and streams, with a
\* callback or without one.
EngineArgs ==
  {[fileNames |-> ArrayOf(fileNames),
    options |-> Options(EmptyObject, Writable, Writable),
    callback |-> cb] : cb \in {Function, Undefined}}

\* Calls with any mix of well formed and malformed arguments, no names and
\* no streams.
OptionValues ==
  {Undefined, TrueValue, Function}
    \cup {Options(fs, out, err) : fs \in {Undefined, TrueValue, EmptyObject},
                                  out \in {Undefined, Readable, Writable},
                                  err \in {Undefined, Readable, Writable}}
AnyArgs ==
  [fileNames : {ArrayOf(<<>>), Undefined, StringValue, NoLengthObject, HalfLengthObject,
                NaNLengthObject, EndlessObject},
   options : OptionValues,
   callback : {Undefined, TrueValue, Function}]

\* Nothing has run yet.
Fresh ==
  /\ returned = [kind |-> "none", error |-> NoError]
  /\ promise = NoPromise
  /\ ticks = <<>>
  /\ pc = "init"
  /\ i = 0
  /\ errNodecat = NullErr
  /\ callerStreamEnded = {}
  /\ inCleanup = 0
  /\ listeners = {}
  /\ outListener = FALSE
  /\ pipes = [s \in StreamIds |-> 0]
  /\ started = {}
  /\ remaining = [s \in StreamIds |-> IF s \in CallerIds THEN StreamBytes(s) ELSE <<>>]
  /\ endEmitted = {}
  /\ outBytes = <<>>
  /\ errLines = <<>>
  /\ callbacks = <<>>
  /\ opened = <<>>
  /\ endOnEnd = {}
  /\ closed = {}
  /\ linesAtCallback = <<>>
  /\ inErrCount = 0
  /\ outErrCount = 0
  /\ signals = <<>>
  /\ lastEv = Event("none", NoStream)

Init ==
  /\ \/ /\ fileNames \in SeqsUpTo(Names, MaxNames)
        /\ callerStreams \in FileStreamMaps
        /\ args \in EngineArgs
        /\ globalPromise = "function"
     \/ /\ args \in AnyArgs
        /\ fileNames = IF args.fileNames = EndlessObject
                       THEN [k \in 1..MaxNames |-> NoName] ELSE <<>>
        /\ callerStreams = NoFileStreams
        /\ globalPromise \in {"function", "undefined", "absent"}
  /\ cmd = NoCmd
  /\ render = NoRender
  /\ Fresh


\* What new Promise(...) throws when global.Promise is not a function.
NewPromiseError ==
  IF globalPromise = "absent"
  THEN ReferenceError(<<"Promise", "is", "not", "defined">>)
  ELSE TypeError(<<"Promise", "is", "not", "a", "constructor">>)

\* Mutant: a callback that is not a function is let through.
Thrown_anyCallback ==
  IF PromiseMode
  THEN IF globalPromise = "function" THEN NoError ELSE NewPromiseError
  ELSE NoError

\* What the call throws before it does anything else, or NoError.
Thrown ==
  IF PromiseMode
  THEN IF globalPromise = "function" THEN NoError ELSE NewPromiseError
  ELSE IF CallbackArg.typeof # "function"
       THEN TypeError(<<"callback", "must", "be", "a", "function">>)
       ELSE NoError

\* fileNames is endless: its length is Infinity, the cursor never passes it.
Endless == Get(args.fileNames, "length") = Infinity

\* What fs.createReadStream(undefined) throws where it checks its path at once.
PathError == TypeError(<<"The", "path", "argument", "must", "be", "of", "type", "string">>)

\* nodecat(fileNames, options, callback), up to its return or throw: its
\* outcome, and the state E of the engine it leaves.  fsThrows tells whether
\* fs.createReadStream throws for the path undefined or returns a stream
\* that will emit the error.
Call(fsThrows) ==
  LET E == [Cur EXCEPT !.promise = IF PromiseMode THEN Pending ELSE @]
      err == Validate(args.fileNames, OptionsArg)
      Return == [kind |-> IF PromiseMode THEN "promise" ELSE "undefined", error |-> NoError]
      Throw(e) == [kind |-> "throw", error |-> e]
      E1 == [E EXCEPT !.outListener = TRUE]
  IN IF Thrown # NoError
     THEN [pc |-> "threw", returned |-> Throw(Thrown), ticks |-> ticks, E |-> Cur]
     ELSE IF err # NoError
     THEN [pc |-> "called", returned |-> Return, ticks |-> <<err>>, E |-> E]
     ELSE IF ~fsThrows
     THEN [pc |-> "called", returned |-> Return, ticks |-> ticks, E |-> catNext(E1)]
     ELSE IF PromiseMode
     THEN [pc |-> "called", returned |-> Return, ticks |-> ticks,
           E |-> reject([E1 EXCEPT !.i = 1], PathError)]
     ELSE [pc |-> "threw", returned |-> Throw(PathError), ticks |-> ticks,
           E |-> [E1 EXCEPT !.i = 1]]

nodecat ==
  /\ pc = "init"
  /\ \E fsThrows \in IF Endless THEN BOOLEAN ELSE {FALSE} :
       LET r == Call(fsThrows)
       IN /\ pc' = r.pc
          /\ returned' = r.returned
          /\ ticks' = r.ticks
          /\ Become(r.E)
  /\ lastEv' = Event("call", NoStream)
  /\ UNCHANGED <<args, globalPromise, fileNames, callerStreams, endEmitted, outBytes,
                 inErrCount, outErrCount, signals>>

\* process.nextTick runs () => { callback(err); }
Tick ==
  /\ ticks # <<>>
  /\ ticks' = Tail(ticks)
  /\ Become(callback(Cur, Head(ticks)))
  /\ lastEv' = Event("tick", NoStream)
  /\ UNCHANGED <<args, globalPromise, returned, fileNames, callerStreams, pc, endEmitted,
                 outBytes, inErrCount, outErrCount, signals>>

\* Stream s emits 'data': every pipe from s to outStream writes the chunk.
StreamData(s) ==
  /\ pc = "called"
  /\ s \in started
  /\ s \notin endEmitted
  /\ remaining[s] # <<>>
  /\ remaining' = [remaining EXCEPT ![s] = Tail(@)]
  /\ outBytes' = outBytes \o Repeat(<<Head(remaining[s])>>, pipes[s])
  /\ lastEv' = Event("data", s)
  /\ UNCHANGED <<args, globalPromise, returned, promise, ticks,
                 fileNames, callerStreams, pc, i, errNodecat, callerStreamEnded,
                 inCleanup, listeners, outListener, pipes, started, endEmitted,
                 errLines, callbacks, opened, endOnEnd, closed, linesAtCallback,
                 cmd, render, inErrCount, outErrCount, signals>>

\* Stream s was opened for the path undefined: it ends in an error only.
NoPath(s) == s > NStreams /\ fileNames[s - NStreams] = NoName

\* Stream s emits 'end' (once, after its data): the engine's listeners run,
\* and the pipes s had when the event began remove themselves; a pipe made
\* while the listeners run (catNext reaching s again under another name)
\* stays. A pipe made without {end: false} ends outStream.
StreamEnd(s) ==
  /\ pc = "called"
  /\ s \in started
  /\ s \notin endEmitted
  /\ remaining[s] = <<>>
  /\ ~NoPath(s)
  /\ endEmitted' = endEmitted \cup {s}
  /\ Become([emit(Cur, s, "end", NullErr) EXCEPT
               !.pipes[s] = @ - pipes[s],
               !.closed = IF pipes[s] > 0 /\ s \in endOnEnd THEN @ \cup {OutStream} ELSE @])
  /\ lastEv' = Event("end", s)
  /\ signals' = Log("end", s, 0)
  /\ UNCHANGED <<args, globalPromise, returned, ticks,
                 fileNames, callerStreams, pc, outBytes, inErrCount, outErrCount>>

\* Stream s emits 'error' with a new Error.
StreamError(s) ==
  /\ pc = "called"
  /\ s \in started
  /\ inErrCount < MaxInErrors
  /\ ~(Endless /\ i >= MaxNames)
  /\ inErrCount' = inErrCount + 1
  /\ Become(emit(Cur, s, "error", NewError(inErrCount + outErrCount + 1)))
  /\ lastEv' = Event("error", s)
  /\ signals' = Log("error", s, inErrCount + outErrCount + 1)
  /\ UNCHANGED <<args, globalPromise, returned, ticks,
                 fileNames, callerStreams, pc, endEmitted, outBytes, outErrCount>>

\* A pipe made from s after s emitted 'end' is removed in a later tick by a
\* stream.Readable (its pipe schedules the unpipe with process.nextTick); a
\* legacy stream.Stream keeps it, which is this step never taken.
Unpiped(s) ==
  /\ pc = "called"
  /\ s \in endEmitted
  /\ pipes[s] > 0
  /\ Become(unpipe(Cur, s))
  /\ lastEv' = Event("unpipe", s)
  /\ UNCHANGED <<args, globalPromise, returned, ticks, fileNames, callerStreams, pc,
                 endEmitted, outBytes, inErrCount, outErrCount, signals>>

\* outStream emits 'error' with a new Error: every pipe into it unpipes
\* itself, and onOutError runs if it is (still) registered, which it is from
\* outStream.once on, also when nodecat threw out of catNext after it.
OutError ==
  /\ pc # "init"
  /\ outErrCount < MaxOutErrors
  /\ outErrCount' = outErrCount + 1
  /\ LET E1 == [Cur EXCEPT !.pipes = [s \in StreamIds |-> 0]]
     IN Become(IF outListener
               THEN onOutError([E1 EXCEPT !.outListener = FALSE],
                               NewError(inErrCount + outErrCount + 1))
               ELSE E1)
  /\ lastEv' = Event("outerror", NoStream)
  /\ signals' = Log("outerror", NoStream, inErrCount + outErrCount + 1)
  /\ UNCHANGED <<args, globalPromise, returned, ticks,
                 fileNames, callerStreams, pc, endEmitted, outBytes, inErrCount>>

Next ==
  \/ nodecat
  \/ Tick
  \/ \E s \in StreamIds : StreamData(s)
  \/ \E s \in StreamIds : StreamEnd(s)
  \/ \E s \in StreamIds : StreamError(s)
  \/ \E s \in StreamIds : Unpiped(s)
  \/ OutError

Spec == Init /\ [][Next]_vars

\* The caller does call nodecat, with a function as callback, and Node runs
\* what process.nextTick holds.
LiveInit == Init /\ CallbackArg = Function
LiveSpec == LiveInit /\ [][Next]_vars /\ WF_vars(nodecat) /\ WF_vars(Tick)

\* -------------------------------------------------------------- command
\* The tokens of the command line, and the characters of each.
Tokens == {"-", "a", "--", "-u", "-uu", "-a", "--unknown"}
Chars(arg) ==
  CASE arg = "-" -> <<"-">>
    [] arg = "a" -> <<"a">>
    [] arg = "--" -> <<"-", "-">>
    [] arg = "-u" -> <<"-", "u">>
    [] arg = "-uu" -> <<"-", "u", "u">>
    [] arg = "-a" -> <<"-", "a">>
    [] arg = "--unknown" -> <<"-", "-", "u", "n", "k", "n", "o", "w", "n">>
\* [node, script]: what process.argv starts with.
RUNTIME_ARGS == <<"node", "nodecat">>

usage == <<"usage: nodecat [-u] [file...]", "\n">>

\* /^-u+$/.test(arg)
IsDashU(arg) ==
  /\ Len(Chars(arg)) >= 2
  /\ Chars(arg)[1] = "-"
  /\ \A k \in 2..Len(Chars(arg)) : Chars(arg)[k] = "u"

\* new Error(`illegal option -- ${arg}`)
IllegalOption(arg) == [kind |-> "Error", message |-> <<"illegal option -- ", arg>>]

\* The filter of parseArgs over the tokens rest, with the flag dashdash as
\* the tokens before left it: the tokens kept, or the Error thrown.
RECURSIVE filterArgs(_, _)
\* Mutant: '--' is dropped wherever it occurs and ends nothing.
filterArgs_noDelimiter(rest, dashdash) ==
  IF rest = <<>> THEN [names |-> <<>>, thrown |-> NoError]
  ELSE LET arg == Head(rest)
       IN IF dashdash \/ arg = "-" \/ Chars(arg)[1] # "-"
          THEN LET r == filterArgs(Tail(rest), dashdash)
               IN IF r.thrown # NoError THEN r
                  ELSE [r EXCEPT !.names = <<arg>> \o @]
          ELSE IF arg = "--"
          THEN filterArgs(Tail(rest), dashdash)
          ELSE IF IsDashU(arg)
          THEN filterArgs(Tail(rest), dashdash)
          ELSE [names |-> <<>>, thrown |-> IllegalOption(arg)]

filterArgs(rest, dashdash) ==
  IF rest = <<>> THEN [names |-> <<>>, thrown |-> NoError]
  ELSE LET arg == Head(rest)
       IN IF dashdash \/ arg = "-" \/ Chars(arg)[1] # "-"
          THEN LET r == filterArgs(Tail(rest), dashdash)
               IN IF r.thrown # NoError THEN r
                  ELSE [r EXCEPT !.names = <<arg>> \o @]
          ELSE IF arg = "--"
          THEN filterArgs(Tail(rest), TRUE)
          ELSE IF IsDashU(arg)
          THEN filterArgs(Tail(rest), dashdash)
          ELSE [names |-> <<>>, thrown |-> IllegalOption(arg)]

\* args.slice(2).filter(...)
parseArgs(argv) == filterArgs(SubSeq(argv, 3, Len(argv)), FALSE)

\* if (fileNames.length === 0) { fileNames = ['-']; }
Defaulted(names) == IF names = <<>> THEN <<"-">> ELSE names

\* process.stdin, the default of options.inStream: only its pipe is read.
stdin == [typeof |-> "object", truthy |-> TRUE, pipe |-> Function]
CmdOptions(in, out, err) ==
  [typeof |-> "object", truthy |-> TRUE, inStream |-> in, outStream |-> out,
   errStream |-> err]

\* The checks of the first try block of nodecatCmd, in order: the TypeError
\* thrown, or NoError.
ValidateCmd(options) ==
  LET inStream == Or(And(options, Get(options, "inStream")), stdin)
      outStream == Or(And(options, Get(options, "outStream")), stdout)
      errStream == Or(And(options, Get(options, "errStream")), stderr)
  IN IF options.truthy /\ options.typeof # "object"
     THEN TypeError(<<"options", "must", "be", "an", "object">>)
     ELSE IF ~inStream.truthy \/ Get(inStream, "pipe").typeof # "function"
     THEN TypeError(<<"options.inStream", "must", "be", "a", "stream.Readable">>)
     ELSE IF ~outStream.truthy \/ Get(outStream, "write").typeof # "function"
     THEN TypeError(<<"options.outStream", "must", "be", "a", "stream.Writable">>)
     ELSE IF ~errStream.truthy \/ Get(errStream, "write").typeof # "function"
     THEN TypeError(<<"options.errStream", "must", "be", "a", "stream.Writable">>)
     ELSE NoError

\* What nodecatCmd throws before it does anything else, or NoError.
CmdThrown ==
  IF ~CmdPromiseMode /\ CmdCallbackArg.typeof # "function"
  THEN TypeError(<<"callback", "must", "be", "a", "function">>)
  ELSE NoError

\* Mutant: the parse failure is reported as success.
parseFailure_success(E, errArgs) ==
  [E EXCEPT !.errLines = Append(@, <<"nodecat: ">> \o errArgs.message \o <<"\n">> \o usage),
            !.cmd.microtasks = Append(@, Report(NullErr, Result(0)))]

\* Mutant: the usage line is written without the message of the error.
parseFailure_usageOnly(E, errArgs) ==
  [E EXCEPT !.errLines = Append(@, usage),
            !.cmd.microtasks = Append(@, Report(NullErr, Result(1)))]

\* The catch block of parseArgs: one write to errStream, and
\* queueMicrotask(() => { callback(null, 1); })
parseFailure(E, errArgs) ==
  [E EXCEPT !.errLines = Append(@, <<"nodecat: ">> \o errArgs.message \o <<"\n">> \o usage),
            !.cmd.microtasks = Append(@, Report(NullErr, Result(1)))]

\* options.inStream, and fileStreams: {'-': options.inStream}
InStream == 1
catOptions == [n \in Tokens |-> IF n = "-" THEN InStream ELSE NoStream]

\* nodecatCmd(args, options, callback), up to its return or throw.
CmdCall ==
  LET E == [Cur EXCEPT !.promise = IF CmdPromiseMode THEN Pending ELSE @]
      err == ValidateCmd(CmdOptionsArg)
      parsed == parseArgs(cmd.args)
      Return == [kind |-> IF CmdPromiseMode THEN "promise" ELSE "undefined",
                 error |-> NoError]
  IN IF CmdThrown # NoError
     THEN [pc |-> "threw", returned |-> [kind |-> "throw", error |-> CmdThrown], E |-> Cur]
     ELSE IF err # NoError
     THEN [pc |-> "called", returned |-> Return,
           E |-> [E EXCEPT !.cmd.microtasks = Append(@, Report(err, NoResult))]]
     ELSE IF parsed.thrown # NoError
     THEN [pc |-> "called", returned |-> Return, E |-> parseFailure(E, parsed.thrown)]
     ELSE [pc |-> "called", returned |-> Return,
           E |-> catNext([E EXCEPT !.cmd.passed = Defaulted(parsed.names),
                                   !.cmd.fileStreams = catOptions,
                                   !.outListener = TRUE])]

nodecatCmd ==
  /\ pc = "init"
  /\ cmd.mode = "command"
  /\ LET r == CmdCall
     IN /\ pc' = r.pc
        /\ returned' = r.returned
        /\ Become(r.E)
  /\ lastEv' = Event("call", NoStream)
  /\ UNCHANGED <<args, globalPromise, ticks, fileNames, callerStreams, endEmitted,
                 outBytes, inErrCount, outErrCount, signals>>

\* A microtask runs: () => { callback(err); } or () => { callback(null, 1); }
Microtask ==
  /\ cmd.microtasks # <<>>
  /\ LET m == Head(cmd.microtasks)
     IN Become(cmdCallback([Cur EXCEPT !.cmd.microtasks = Tail(@)], m.err, m.result))
  /\ lastEv' = Event("microtask", NoStream)
  /\ UNCHANGED <<args, globalPromise, returned, ticks, fileNames, callerStreams, pc,
                 endEmitted, outBytes, inErrCount, outErrCount, signals>>

\* The names nodecatCmd hands to nodecat for the tokens argv.
PassedNames(argv) ==
  IF parseArgs(argv).thrown # NoError THEN <<>> ELSE Defaulted(parseArgs(argv).names)

CmdOptionValues ==
  {Undefined, TrueValue, Function}
    \cup {CmdOptions(in, out, err) : in \in {Undefined, Readable, EmptyObject},
                                    out \in {Undefined, Writable, Readable},
                                    err \in {Undefined, Writable, Readable}}

\* The command is about to be called: with any tokens, streams and a
\* function; or with no tokens and any options and callback.
CmdInit ==
  /\ \/ /\ \E tokens \in SeqsUpTo(Tokens, MaxArgs) :
              cmd = [NoCmd EXCEPT !.mode = "command",
                                  !.args = RUNTIME_ARGS \o tokens,
                                  !.options = CmdOptions(Readable, Writable, Writable),
                                  !.callback = Function]
        /\ globalPromise = "function"
     \/ /\ \E options \in CmdOptionValues, cb \in {Undefined, TrueValue, Function} :
              cmd = [NoCmd EXCEPT !.mode = "command",
                                  !.args = RUNTIME_ARGS,
                                  !.options = options,
                                  !.callback = cb]
        /\ globalPromise \in {"function", "undefined", "absent"}
  /\ Len(PassedNames(cmd.args)) <= MaxNames
  /\ fileNames = PassedNames(cmd.args)
  /\ callerStreams = catOptions
  /\ args = [fileNames |-> ArrayOf(fileNames),
             options |-> Options(EmptyObject, Writable, Writable),
             callback |-> Function]
  /\ render = NoRender
  /\ Fresh

CmdNext ==
  \/ nodecatCmd
  \/ Microtask
  \/ \E s \in StreamIds : StreamData(s)
  \/ \E s \in StreamIds : StreamEnd(s)
  \/ \E s \in StreamIds : StreamError(s)
  \/ OutError

CmdSpec == CmdInit /\ [][CmdNext]_vars

\* ------------------------------------------ names of Object.prototype
\* Calls with valid arguments whose names are a file name and a name that
\* every plain object inherits; fileStreams is empty or has an entry of its
\* own for that name.
ProtoNames == {"a"} \cup PrototypeNames
ProtoInit ==
  /\ fileNames \in SeqsUpTo(ProtoNames, MaxNames)
  /\ callerStreams \in {[n \in ProtoNames |-> NoStream],
                        [n \in ProtoNames |-> IF Inherits(n) THEN 1 ELSE NoStream]}
  /\ args \in EngineArgs
  /\ globalPromise = "function"
  /\ cmd = NoCmd
  /\ render = NoRender
  /\ Fresh

ProtoNext ==
  \/ nodecat
  \/ \E s \in StreamIds : StreamData(s)
  \/ \E s \in StreamIds : StreamEnd(s)
  \/ \E s \in StreamIds : StreamError(s)
  \/ OutError

ProtoSpec == ProtoInit /\ [][ProtoNext]_vars

\* ============================================================== claims
Completed == callbacks # <<>>
NoFailures == inErrCount = 0 /\ outErrCount = 0
OutFailed == \E k \in 1..Len(signals) : signals[k].type = "outerror"
ReadFailures == SelectSeq(signals, LAMBDA g : g.type = "error")

\* The bytes carried by the input at position p.
BytesAt(p) == IF callerStreamAt(p) # NoStream THEN StreamBytes(callerStreamAt(p))
              ELSE FileBytes(fileNames[p])

\* The Error with id id, marked with the name at position p.
NamedError(id, p) == [NewError(id) EXCEPT !.fileName = fileNames[p]]
ReadLine(id, p) == <<"nodecat: ", fileNames[p], ": ", Message(NewError(id)), "\n">>

\* The concatenation, in the order of fileNames from position p on, of every
\* file and of the first occurrence of every caller-supplied name.
RECURSIVE ExpectedFrom(_, _)
ExpectedFrom(p, seen) ==
  IF p > Len(fileNames) THEN <<>>
  ELSE IF callerStreamAt(p) = NoStream
       THEN FileBytes(fileNames[p]) \o ExpectedFrom(p + 1, seen)
       ELSE IF fileNames[p] \in seen THEN ExpectedFrom(p + 1, seen)
            ELSE StreamBytes(callerStreamAt(p)) \o ExpectedFrom(p + 1, seen \cup {fileNames[p]})

\* C1: for every interleaving of input 'end', input 'error' and output
\* 'error' events, including events after completion, the completion
\* callback is invoked at most once.
C1_CallbackAtMostOnce == Len(callbacks) <= 1

C1_Witness ==
  /\ Len(callbacks) = 1
  /\ lastEv.late
  /\ lastEv.type \in {"end", "error", "outerror"}

\* The input at position p has been started (opened and piped).
Started(p) == \E k \in 1..Len(opened) : opened[k] = p
\* The input at position p, while it was the one being copied, has emitted
\* 'end' or 'error', or outStream has emitted 'error' meanwhile.
Signalled(p) == \E k \in 1..Len(signals) : signals[k].pos = p

\* The arguments of the call pass the checks of nodecat.
Valid == Validate(args.fileNames, OptionsArg) = NoError

\* C2: if every input that starts copying eventually signals end-of-data or
\* a read failure, or the output fails, then the completion callback of a
\* call that returned is eventually invoked, and with valid arguments it is
\* invoked only once the cursor has passed the last name or the output has
\* failed.
C2_EventuallyCompletes ==
  /\ ([](pc # "threw") /\ \A p \in 1..MaxNames : [](Started(p) => <>Signalled(p)))
       => <>Completed
  /\ [](Completed /\ Valid => (i = Len(fileNames) \/ OutFailed))

C2_Witness ==
  /\ Completed
  /\ Len(fileNames) = 3
  /\ \A p \in 1..3 : Started(p) /\ Signalled(p)
  /\ signals[2].type = "error"
  /\ signals[3].type = "end"

\* C3: with no failures, when nodecat completes the bytes written to
\* outStream are the concatenation, in the order of the names, of the bytes
\* of each input that was copied.
C3_OutputIsConcatenation ==
  (Completed /\ NoFailures) => outBytes = ExpectedFrom(1, {})

C3_Witness ==
  /\ Completed /\ NoFailures
  /\ Len(fileNames) = 3
  /\ callerStreamAt(1) = NoStream
  /\ callerStreamAt(2) # NoStream
  /\ fileNames[3] = fileNames[1]
  /\ Len(outBytes) = 3 * DataLen

\* C4: a caller-supplied stream registered under a name is copied at most
\* once: no later occurrence of the name is opened or piped, and names
\* <<"-", "-">> over one stream carrying B give output exactly B and a
\* success result.
C4_CallerStreamReadOnce ==
  /\ \A p \in 1..Len(opened) : \A q \in 1..Len(opened) :
       (p # q /\ callerStreamAt(opened[p]) # NoStream)
          => fileNames[opened[p]] # fileNames[opened[q]]
  /\ (fileNames = <<"-", "-">> /\ callerStreamAt(1) # NoStream /\ Completed /\ NoFailures)
        => /\ outBytes = StreamBytes(callerStreamAt(1))
           /\ errLines = <<>>
           /\ callbacks = <<NullErr>>

C4_Witness ==
  /\ fileNames = <<"-", "-">>
  /\ callerStreamAt(1) # NoStream
  /\ Completed /\ NoFailures
  /\ opened = <<1>>

\* Names [A, B], reading A fails with error E, B then reads to its end, and
\* nothing else fails.
C5_Case ==
  /\ Len(fileNames) = 2
  /\ Completed
  /\ Len(signals) = 2
  /\ signals[1].type = "error" /\ signals[1].pos = 1
  /\ signals[2].type = "end" /\ signals[2].pos = 2

C5_Reported ==
  /\ errLines = <<ReadLine(signals[1].id, 1)>>
  /\ callbacks = <<NamedError(signals[1].id, 1)>>

\* C5 as stated: given names [A, B] where reading A fails with E and B reads
\* successfully, the output is exactly B's bytes, the error sink receives
\* 'nodecat: A: <message>' and the result is E itself with A's name.
C5_Original ==
  C5_Case => (outBytes = BytesAt(2) /\ C5_Reported)

\* C5 (amended): given names [A, B] where reading A fails with E and B reads
\* successfully, the output is the bytes A delivered before it failed
\* followed by the bytes B delivered (all of B's bytes, or the rest of the
\* stream when both names are the same caller-supplied stream), the error
\* sink receives the one line 'nodecat: A: <message>' and the result is E
\* itself, not an aggregate, with A's name.
C5_ReadErrorThenNext ==
  C5_Case =>
    /\ LET k == signals[1].outLen
       IN /\ k <= DataLen
          /\ outBytes = SubSeq(BytesAt(1), 1, k)
                        \o (IF inStreamAt(1) = inStreamAt(2)
                            THEN SubSeq(BytesAt(1), k + 1, DataLen)
                            ELSE BytesAt(2))
    /\ C5_Reported

C5_Witness ==
  /\ C5_Case
  /\ signals[1].outLen > 0
  /\ inStreamAt(1) # inStreamAt(2)

\* C6: when k >= 2 inputs fail on read and the output does not fail, the
\* result is an aggregate of length k whose members are those errors in the
\* order of the failures, each with the name of its input.
C6_AggregateOfReadErrors ==
  (Completed /\ ~OutFailed /\ Len(ReadFailures) >= 2) =>
     callbacks[1] = [NewAggregateError EXCEPT !.errors =
                       [k \in 1..Len(ReadFailures) |->
                          NamedError(ReadFailures[k].id, ReadFailures[k].pos)]]

C6_Witness ==
  /\ Completed /\ ~OutFailed
  /\ Len(ReadFailures) = 3

\* C7: when an input read failure is followed by an output failure, the
\* result is an aggregate of length 2: the read error with its name, then
\* the write error with no name.
C7_ReadThenWriteError ==
  (Len(ReadFailures) = 1 /\ OutFailed) =>
     callbacks = <<[NewAggregateError EXCEPT !.errors =
                      <<NamedError(ReadFailures[1].id, ReadFailures[1].pos),
                        NewError(signals[Len(signals)].id)>>]>>

C7_Witness ==
  /\ Len(ReadFailures) = 1
  /\ OutFailed
  /\ signals[Len(signals)].type = "outerror"
  /\ i < Len(fileNames)

\* C8: after an output failure is observed the operation has completed, and
\* from then on the cursor never advances and no input is opened or piped,
\* however many names remain.
C8_StopsAfterOutputFailure ==
  /\ [](OutFailed => Completed)
  /\ [][OutFailed => /\ i' = i
                     /\ opened' = opened
                     /\ started' = started
                     /\ \A s \in StreamIds : pipes'[s] <= pipes[s]]_vars

C8_Witness ==
  /\ OutFailed
  /\ Len(fileNames) - i >= 2
  /\ lastEv.late
  /\ lastEv.type = "end"

\* C9: after an output failure no further bytes are written to outStream,
\* even if the input that was in flight later emits data and ends.
C9_NoBytesAfterOutputFailure ==
  [][OutFailed => outBytes' = outBytes]_vars

C9_Witness ==
  /\ OutFailed
  /\ signals[Len(signals)].pos = 1
  /\ signals[Len(signals)].outLen = 0
  /\ inStreamAt(1) \in endEmitted
  /\ remaining[inStreamAt(1)] = <<>>

\* C10: after an output failure has completed the invocation, a later
\* 'error' or 'end' of the input that was in flight writes no error line,
\* adds no error record, starts no input and does not call the callback.
C10_LateInputEventIgnored ==
  [][(OutFailed /\ lastEv'.type \in {"end", "error"} /\ lastEv'.stream = inStreamAt(i))
       => /\ errLines' = errLines
          /\ errNodecat' = errNodecat
          /\ opened' = opened
          /\ i' = i
          /\ callbacks' = callbacks]_vars

C10_Witness ==
  /\ OutFailed
  /\ lastEv.late
  /\ lastEv.type = "error"
  /\ lastEv.stream = inStreamAt(i)
  /\ i < Len(fileNames)

\* The call returned or settled by throwing nothing before its checks.
Accepted == pc # "init" /\ Thrown = NoError

\* No input was opened, no listener registered and nothing written.
Untouched ==
  /\ opened = <<>>
  /\ started = {}
  /\ listeners = {}
  /\ ~outListener
  /\ outBytes = <<>>
  /\ errLines = <<>>

\* The errors reported or about to be reported through the callback.
Reports == callbacks \o ticks

\* C11: once the completion callback has been invoked the output-failure
\* listener is not registered, and an output failure after completion writes
\* no error line, changes no result and does not invoke the callback.
C11_OutputListenerReleased ==
  /\ [](Completed => ~outListener)
  /\ [][(Completed /\ lastEv'.type = "outerror")
          => /\ errLines' = errLines
             /\ errNodecat' = errNodecat
             /\ callbacks' = callbacks
             /\ promise' = promise]_vars

C11_Witness ==
  /\ callbacks = <<NullErr>>
  /\ Len(fileNames) >= 1
  /\ lastEv.type = "outerror"
  /\ lastEv.late
  /\ outErrCount = 1

\* C12: with an empty names list nothing is written to the output, nothing
\* to the error stream, and the result reported is success (null).
C12_EmptyNames ==
  (pc = "called" /\ Valid /\ args.fileNames = ArrayOf(<<>>))
    => /\ callbacks = <<NullErr>>
       /\ outBytes = <<>>
       /\ errLines = <<>>
       /\ opened = <<>>

C12_Witness ==
  /\ pc = "called"
  /\ args.fileNames = ArrayOf(<<>>)
  /\ args.callback = Function
  /\ returned.kind = "undefined"
  /\ callbacks = <<NullErr>>

\* Not an object, or an object whose length is missing or is not an integer.
NotArrayLike(v) ==
  \/ v.typeof # "object"
  \/ ~v.truthy
  \/ "length" \notin DOMAIN v
  \/ v.length.typeof # "number"
  \/ v.length.num # "int"

\* C13: a fileNames that is not an array-like object makes the call report,
\* through the callback, one TypeError that names fileNames, and no input is
\* opened, no listener registered and nothing written.
C13_NotArrayLikeRejected ==
  (Accepted /\ NotArrayLike(args.fileNames))
    => /\ Untouched
       /\ Len(Reports) = 1
       /\ Reports[1].kind = "TypeError"
       /\ Mentions(Reports[1], "fileNames")

\* The part of C13 that holds: a fileNames that is not an object, or whose
\* length is missing, fractional or NaN, is reported as C13 says.
C13_FiniteRejected ==
  (Accepted /\ NotArrayLike(args.fileNames) /\ ~Endless)
    => /\ Untouched
       /\ Len(Reports) = 1
       /\ Reports[1].kind = "TypeError"
       /\ Mentions(Reports[1], "fileNames")

C13_Witness ==
  /\ args.fileNames = HalfLengthObject
  /\ Len(callbacks) = 1
  /\ callbacks[1].kind = "TypeError"
  /\ ticks = <<>>

\* The parameter at fault, by the order fileNames, options,
\* options.fileStreams, options.outStream, options.errStream.
FirstViolation ==
  LET fs == Get(OptionsArg, "fileStreams")
      out == Get(OptionsArg, "outStream")
      err == Get(OptionsArg, "errStream")
  IN IF NotArrayLike(args.fileNames) THEN "fileNames"
     ELSE IF OptionsArg.truthy /\ OptionsArg.typeof # "object" THEN "options"
     ELSE IF fs.truthy /\ fs.typeof # "object" THEN "options.fileStreams"
     ELSE IF out.truthy /\ "write" \notin DOMAIN out THEN "options.outStream"
     ELSE IF err.truthy /\ "write" \notin DOMAIN err THEN "options.errStream"
     ELSE "none"

\* C14: for a fileNames of finite length, a malformed argument is reported
\* through the callback as one TypeError whose message names the first
\* parameter at fault in the order fileNames, options, options.fileStreams,
\* options.outStream, options.errStream, and no stream is touched.
C14_FirstViolationReported ==
  (Accepted /\ ~Endless /\ FirstViolation # "none")
    => /\ Untouched
       /\ Len(Reports) = 1
       /\ Reports[1].kind = "TypeError"
       /\ Reports[1].message[1] = FirstViolation

C14_Witness ==
  /\ args.fileNames = ArrayOf(<<>>)
  /\ args.options = Options(TrueValue, Readable, Readable)
  /\ Len(callbacks) = 1
  /\ callbacks[1].message[1] = "options.fileStreams"
  /\ ticks = <<>>

\* C15: a callback that is given and is not a function makes the call throw
\* a TypeError that mentions callback, before any check of the other
\* arguments, with no input opened, no listener registered, nothing written
\* and nothing ever reported through the callback or a Promise.
C15_NonFunctionCallbackThrows ==
  (pc # "init" /\ args.callback.truthy /\ args.callback.typeof # "function")
    => /\ pc = "threw"
       /\ returned.kind = "throw"
       /\ returned.error.kind = "TypeError"
       /\ Mentions(returned.error, "callback")
       /\ Untouched
       /\ Reports = <<>>
       /\ promise = NoPromise

C15_Witness ==
  /\ pc = "threw"
  /\ args.callback = TrueValue
  /\ args.fileNames = Undefined
  /\ args.options = TrueValue
  /\ returned.kind = "throw"

\* C16: without a callback and without a Promise implementation the call
\* throws a TypeError whose message mentions callback.
C16_NoPromiseThrowsCallbackError ==
  (pc # "init" /\ PromiseMode /\ globalPromise # "function")
    => /\ returned.kind = "throw"
       /\ returned.error.kind = "TypeError"
       /\ Mentions(returned.error, "callback")

\* C17: without a callback the call returns a Promise, which is resolved
\* when the result given to the callback is success and rejected with that
\* result otherwise, and which never changes once settled; with a callback
\* the call returns undefined and makes no Promise.
C17_PromiseSettlesWithResult ==
  /\ [](pc = "called" => IF PromiseMode
                          THEN returned.kind = "promise" /\ promise.state # "none"
                          ELSE returned.kind = "undefined" /\ promise = NoPromise)
  /\ [](promise.state = "resolved" => callbacks = <<NullErr>>)
  /\ [][(PromiseMode /\ promise.state = "pending" /\ callbacks' # callbacks)
          => promise' = IF callbacks'[1] = NullErr
                        THEN [state |-> "resolved", value |-> NoError, calls |-> 1]
                        ELSE [state |-> "rejected", value |-> callbacks'[1], calls |-> 1]]_vars
  /\ [][promise.state \in {"resolved", "rejected"}
          => promise'.state = promise.state /\ promise'.value = promise.value]_vars

C17_Witness ==
  /\ returned.kind = "promise"
  /\ promise.state = "rejected"
  /\ promise.value.kind = "aggregate"
  /\ Len(promise.value.errors) = 2
  /\ promise.value = callbacks[1]

\* The Promise of a call is resolved: no name failed.
C17_WitnessResolved ==
  /\ returned.kind = "promise"
  /\ promise.state = "resolved"
  /\ Len(fileNames) = 2

\* The result reported is success.
Succeeded == callbacks # <<>> /\ callbacks[1] = NullErr

\* C18: success is reported, to the callback or by resolving the Promise,
\* only after every input that was copied has emitted 'end' with all of its
\* bytes written to the output, and never while an input is in flight.
C18_SuccessAfterAllWritten ==
  (Succeeded \/ promise.state = "resolved")
    => /\ i = Len(fileNames)
       /\ \A k \in 1..Len(opened) :
             /\ inStreamAt(opened[k]) \in endEmitted
             /\ remaining[inStreamAt(opened[k])] = <<>>
       /\ listeners = {}
       /\ \A s \in StreamIds : pipes[s] = 0
       /\ outBytes = ExpectedFrom(1, {})

C18_Witness ==
  /\ promise.state = "resolved"
  /\ Len(opened) = 3
  /\ Len(outBytes) = 3 * DataLen

\* The failures observed before completion, in order, and the Error each
\* one adds to the result.
Failures == SelectSeq(signals, LAMBDA g : g.type \in {"error", "outerror"})
FailureError(g) == IF g.type = "error" THEN NamedError(g.id, g.pos) ELSE NewError(g.id)

\* C19 as stated: the callback is called with the first Error that occurred.
C19_Original ==
  (Completed /\ Valid /\ Len(Failures) >= 1)
    => callbacks[1] = FailureError(Failures[1])

\* The part of C19 that holds: the callback is called with the first Error
\* that occurred when it is the only one, and otherwise with an AggregateError
\* whose first member is the first Error; after a read error the cursor moves
\* on to the next name or the call completes.
C19_FirstErrorLeads ==
  /\ []((Completed /\ Valid /\ Len(Failures) >= 1)
          => IF Len(Failures) = 1
             THEN callbacks[1] = FailureError(Failures[1])
             ELSE /\ callbacks[1].kind = "aggregate"
                  /\ callbacks[1].errors[1] = FailureError(Failures[1]))
  /\ [][(lastEv'.type = "error" /\ lastEv'.live) => (i' > i \/ callbacks' # <<>>)]_vars

C19_Witness ==
  /\ Completed
  /\ Len(Failures) = 2
  /\ Failures[1].type = "error"
  /\ Failures[2].type = "error"
  /\ Failures[1].pos = 1
  /\ Failures[2].pos = 3
  /\ Len(outBytes) = DataLen
  /\ callbacks[1].errors[1] = FailureError(Failures[1])

\* C20: with n the number of failures observed, the result reported is null
\* for n = 0, the one Error itself for n = 1, and for n >= 2 one
\* AggregateError of length n whose members are the Errors in the order of
\* the failures.
C20_ResultByFailureCount ==
  (Completed /\ Valid)
    => LET n == Len(Failures)
       IN IF n = 0 THEN callbacks[1] = NullErr
          ELSE IF n = 1 THEN callbacks[1] = FailureError(Failures[1])
          ELSE /\ callbacks[1].kind = "aggregate"
               /\ Len(callbacks[1].errors) = n
               /\ \A k \in 1..n : callbacks[1].errors[k] = FailureError(Failures[k])

C20_Witness ==
  /\ Completed
  /\ Len(Failures) = 3
  /\ Failures[3].type = "outerror"
  /\ Len(callbacks[1].errors) = 3

\* One failure only: the result is the Error, not an aggregate.
C20_WitnessSingle ==
  /\ Completed
  /\ Len(Failures) = 1
  /\ Failures[1].type = "outerror"
  /\ callbacks[1].kind = "error"

\* The error records a result holds: none for null, the Error itself, or the
\* members of the AggregateError.
Records(err) == IF err.kind = "null" THEN <<>>
                ELSE IF err.kind = "aggregate" THEN err.errors ELSE <<err>>

\* The line written to errStream for a failure.
LineOf(g) == IF g.type = "error" THEN ReadLine(g.id, g.pos)
             ELSE <<"nodecat: ", ErrorToString(NewError(g.id)), "\n">>

\* C21: every failure writes one line to errStream when it is detected: the
\* lines written are as many as the error records accumulated, they are the
\* lines of the failures in order of occurrence, and all of them are written
\* before the callback is called.
C21_OneLinePerFailure ==
  /\ [](/\ Len(errLines) = Len(Records(errNodecat))
        /\ Len(errLines) = Len(Failures)
        /\ \A k \in 1..Len(errLines) : errLines[k] = LineOf(Failures[k])
        /\ Completed => linesAtCallback[1] = Len(errLines))
  /\ [][(lastEv'.type \in {"error", "outerror"} /\ lastEv'.live)
          => errLines' = Append(errLines, LineOf(signals'[Len(signals')]))]_vars

C21_Witness ==
  /\ Completed
  /\ Len(errLines) = 3
  /\ Failures[1].type = "error"
  /\ Failures[3].type = "outerror"
  /\ linesAtCallback = <<3>>

\* Stream s is supplied by the caller under exactly one name.
Unaliased(s) == Cardinality({n \in Names : callerStreams[n] = s}) = 1

\* C22: a caller-supplied stream whose read failed is marked as ended: no
\* later occurrence of its name is opened, the stream is left unpiped, and
\* data it emits after the failure is not written to the output.
C22_FailedCallerStreamConsumed ==
  /\ [](\A k \in 1..Len(signals) :
          (signals[k].type = "error" /\ callerStreamAt(signals[k].pos) # NoStream)
            => /\ fileNames[signals[k].pos] \in callerStreamEnded
               /\ \A q \in 1..Len(opened) :
                     opened[q] > signals[k].pos
                       => fileNames[opened[q]] # fileNames[signals[k].pos]
               /\ Unaliased(signals[k].stream) => pipes[signals[k].stream] = 0)
  /\ [][(/\ lastEv'.type = "data"
          /\ Unaliased(lastEv'.stream)
          /\ \E k \in 1..Len(signals) :
                signals[k].type = "error" /\ signals[k].stream = lastEv'.stream)
          => outBytes' = outBytes]_vars

C22_Witness ==
  /\ Len(fileNames) = 3
  /\ fileNames[3] = fileNames[1]
  /\ callerStreamAt(1) # NoStream
  /\ callerStreamAt(2) = NoStream
  /\ signals # <<>>
  /\ signals[1].type = "error"
  /\ signals[1].pos = 1
  /\ lastEv.type = "data"
  /\ lastEv.stream = callerStreamAt(1)
  /\ Completed
  /\ opened = <<1, 2>>
  /\ Len(outBytes) = DataLen

Occurrences(name) == Cardinality({p \in 1..Len(fileNames) : fileNames[p] = name})

\* C23: a name with no caller-supplied stream is opened at every one of its
\* occurrences, and with no failure the output holds the bytes of the file
\* once for each occurrence.
C23_FileCopiedAtEveryOccurrence ==
  /\ \A p \in 1..Len(fileNames) :
       (p < i /\ fileNames[p] \in Names /\ callerStreamAt(p) = NoStream)
         => \E k \in 1..Len(opened) : opened[k] = p
  /\ (Completed /\ NoFailures)
       => \A n \in Names :
            callerStreamOf(n) = NoStream
              => SelectSeq(outBytes, LAMBDA b : b.file = n) = Repeat(FileBytes(n), Occurrences(n))

C23_Witness ==
  /\ Completed
  /\ NoFailures
  /\ Len(fileNames) = 3
  /\ fileNames[1] = fileNames[2]
  /\ fileNames[2] = fileNames[3]
  /\ callerStreamAt(1) = NoStream
  /\ Len(outBytes) = 3 * DataLen

\* C24: in every state the engine has ended or destroyed neither outStream
\* nor any input stream, and no pipe to outStream would end it.
C24_NothingClosed == closed = {} /\ endOnEnd = {}

C24_Witness ==
  /\ Completed
  /\ OutFailed
  /\ Len(ReadFailures) >= 1
  /\ \E s \in CallerIds : s \in endEmitted

\* Stream s is the input being copied.
InFlight(s) == callbacks = <<>> /\ i >= 1 /\ inStreamAt(i) = s

\* C25: at a read failure the input is unpiped from outStream before the
\* next input is started (it is piped afterwards only if the next name is
\* another name of the same stream), and data emitted by a stream that is
\* not the input being copied is never written to the output.
C25_NoInterleaving ==
  /\ [][(lastEv'.type = "error" /\ lastEv'.live)
          => \/ pipes'[lastEv'.stream] = 0
             \/ /\ i' > i
                /\ inStreamAt(i') = lastEv'.stream
                /\ pipes'[lastEv'.stream] = 1]_vars
  /\ [][(lastEv'.type = "data" /\ ~InFlight(lastEv'.stream)) => outBytes' = outBytes]_vars

C25_Witness ==
  /\ signals # <<>>
  /\ signals[1].type = "error"
  /\ signals[1].pos = 1
  /\ signals[1].outLen = 0
  /\ i = 2
  /\ inStreamAt(2) # inStreamAt(1)
  /\ lastEv.type = "data"
  /\ lastEv.stream = inStreamAt(1)
  /\ Len(outBytes) = DataLen
  /\ remaining[inStreamAt(2)] = <<>>

\* C26: at most one input is being copied: every engine listener and every
\* pipe to outStream belongs to the input at the cursor, positions are
\* started in increasing order, each at most once, and a position before the
\* cursor that was started has ended or failed.
C26_OneInputAtATime ==
  /\ \A l \in listeners : l.pos = i /\ l.stream = inStreamAt(i) /\ callbacks = <<>>
  /\ \A s \in StreamIds : pipes[s] > 0 => (pipes[s] = 1 /\ InFlight(s))
  /\ \A k \in 1..Len(opened) :
       /\ opened[k] <= i
       /\ k < Len(opened) => opened[k] < opened[k + 1]
       /\ opened[k] < i => \E g \in 1..Len(signals) :
                              /\ signals[g].pos = opened[k]
                              /\ signals[g].type \in {"end", "error"}

C26_Witness ==
  /\ i = 3
  /\ opened = <<1, 3>>
  /\ Len(ReadFailures) = 1
  /\ Cardinality(listeners) = 2
  /\ pipes[inStreamAt(3)] = 1

\* C27: the records of the result are, in order, the Errors of the failures
\* observed, a read error with the name at the cursor when it was observed
\* and an output error with no name, and no record changes once it is kept.
C27_RecordAttribution ==
  /\ [](/\ Len(Records(errNodecat)) = Len(Failures)
        /\ \A k \in 1..Len(Failures) :
              /\ Records(errNodecat)[k] = FailureError(Failures[k])
              /\ Records(errNodecat)[k].fileName =
                    IF Failures[k].type = "error" THEN fileNames[Failures[k].pos] ELSE NoName)
  /\ [][\A k \in 1..Len(Records(errNodecat)) :
           /\ k <= Len(Records(errNodecat'))
           /\ Records(errNodecat')[k] = Records(errNodecat)[k]]_vars

C27_Witness ==
  /\ Len(Records(errNodecat)) = 3
  /\ Records(errNodecat)[1].fileName = "-"
  /\ Records(errNodecat)[2].fileName = "a"
  /\ Records(errNodecat)[3].fileName = NoName
  /\ Failures[3].type = "outerror"

\* ------------------------------------------------------------- rendering
\* A member of an AggregateError: an Error, a reference to an AggregateError
\* object (itself or another), or a value whose conversion to a string throws.
Ref(a) == [kind |-> "ref", id |-> a]
Thrower == [kind |-> "thrower"]
ConversionError == TypeError(<<"Cannot", "convert", "to", "a", "string">>)
RangeError == [kind |-> "RangeError",
               message |-> <<"Maximum", "call", "stack", "size", "exceeded">>]

\* A string is the sequence of its lines (str.split('\n')); a line is its
\* leading spaces and the text after them.
Line(spaces, text) == [indent |-> spaces, text |-> text]
EmptyLine == Line(0, <<>>)
Header == <<"AggregateError of:">>
Circular == <<"[Circular AggregateError]">>

\* Mutant: the lines of a member are appended as they are.
indentLines_none(lines, indent) == lines

\* lines[j] = indent + lines[j], for every line
indentLines(lines, indent) ==
  [j \in 1..Len(lines) |-> Line(lines[j].indent + indent, lines[j].text)]

\* The outcome of a call: the string returned or the error thrown, and the
\* value the counter level is left with.
Returned(lines, level) == [thrown |-> NoError, lines |-> lines, level |-> level]
Threw(err, level) == [thrown |-> err, lines |-> <<>>, level |-> level]

RECURSIVE AggregateErrorToString(_, _, _, _)
RECURSIVE loop(_, _, _, _, _, _, _)
\* Mutant: a member is converted to a string whatever it is.
str_noGuard(heap, a, member, level, depth) ==
  IF member.kind = "ref" THEN AggregateErrorToString(heap, member.id, level, depth + 1)
  ELSE IF member.kind = "thrower" THEN Threw(ConversionError, level)
  ELSE Returned(<<Line(0, ErrorToString(member))>>, level)

\* this[i] === this ? '[Circular AggregateError]' : this[i] + ''
str(heap, a, member, level, depth) ==
  IF member = Ref(a) THEN Returned(<<Line(0, Circular)>>, level)
  ELSE IF member.kind = "ref"
  THEN AggregateErrorToString(heap, member.id, level, depth + 1)
  ELSE IF member.kind = "thrower" THEN Threw(ConversionError, level)
  ELSE Returned(<<Line(0, ErrorToString(member))>>, level)

\* The for loop of toString from member k on, with ret as built so far (it
\* ends with a newline: its last line is empty), then level -= 1; return ret.
loop(heap, a, k, indent, ret, level, depth) ==
  IF k > length(heap[a]) THEN Returned(ret, level - 1)
  ELSE LET s == str(heap, a, heap[a].errors[k], level, depth)
       IN IF s.thrown # NoError THEN s
          ELSE loop(heap, a, k + 1, indent,
                    SubSeq(ret, 1, Len(ret) - 1) \o indentLines(s.lines, indent)
                      \o <<EmptyLine>>,
                    s.level, depth)

\* AggregateError.prototype.toString called on heap[a] with depth calls of it
\* on the stack: a call the stack has no room for throws a RangeError.
AggregateErrorToString(heap, a, level, depth) ==
  IF depth >= MaxStack THEN Threw(RangeError, level)
  ELSE loop(heap, a, 1, (level + 1) * 4,
            <<EmptyLine, Line(level * 4, Header), EmptyLine>>, level + 1, depth)

\* What can be pushed: an Error, an AggregateError constructed so far, or a
\* value that cannot be converted to a string.
MemberValues == {NewError(1), NewError(2), Thrower}
                  \cup {Ref(a) : a \in 1..Len(render.heap)}

\* Everything but render.
others == <<args, globalPromise, returned, promise, ticks, fileNames, callerStreams,
            pc, i, errNodecat, callerStreamEnded, inCleanup, listeners, outListener,
            pipes, started, remaining, endEmitted, outBytes, errLines, callbacks,
            opened, endOnEnd, closed, linesAtCallback, cmd, inErrCount, outErrCount,
            signals, lastEv>>

\* The objects are built first and rendered afterwards.
\* new AggregateError()
Construct ==
  /\ render.calls = 0
  /\ Len(render.heap) < MaxAggs
  /\ render' = [render EXCEPT !.heap = Append(@, NewAggregateError)]
  /\ UNCHANGED others

\* heap[a].push(member)
Push(a, member) ==
  /\ render.calls = 0
  /\ length(render.heap[a]) < MaxMembers
  /\ render' = [render EXCEPT !.heap[a] = push(@, member),
                              !.pushed = [agg |-> a, member |-> member]]
  /\ UNCHANGED others

\* A step of the building phase made by something other than push.
Changed(a, agg) ==
  /\ render.calls = 0
  /\ render' = [render EXCEPT !.heap[a] = agg, !.pushed = NoPush]
  /\ UNCHANGED others

\* heap[a].pop()
Pop(a) == Changed(a, pop(render.heap[a]))

\* heap[a].shift()
Shift(a) == Changed(a, shift(render.heap[a]))

\* heap[a].unshift(member)
Unshift(a, member) ==
  /\ length(render.heap[a]) < MaxMembers
  /\ Changed(a, unshift(render.heap[a], member))

\* heap[a].reverse()
Reverse(a) == Changed(a, reverse(render.heap[a]))

\* heap[a].splice(start, deleteCount)
Splice(a, start, deleteCount) ==
  /\ start + deleteCount <= length(render.heap[a])
  /\ Changed(a, splice(render.heap[a], start, deleteCount))

\* heap[a].fill(member)
Fill(a, member) == Changed(a, fill(render.heap[a], member))

\* heap[a].copyWithin(target, start)
CopyWithin(a, target, start) ==
  /\ target < length(render.heap[a])
  /\ start < length(render.heap[a])
  /\ Changed(a, copyWithin(render.heap[a], target, start))

\* heap[a].sort(), of members that are Errors.
Sort(a) ==
  /\ \A k \in 1..length(render.heap[a]) : render.heap[a].errors[k].kind = "error"
  /\ Changed(a, sort(render.heap[a]))

\* heap[a].length = n
SetLength(a, n) ==
  /\ n <= length(render.heap[a])
  /\ Changed(a, setLength(render.heap[a], n))

\* String(heap[a]), called from outside any rendering.
Render(a) ==
  /\ render.calls < MaxCalls
  /\ LET r == AggregateErrorToString(render.heap, a, render.level, 0)
     IN render' = [render EXCEPT
                     !.level = r.level,
                     !.calls = @ + 1,
                     !.pushed = NoPush,
                     !.last = [agg |-> a, entry |-> render.level,
                               thrown |-> r.thrown, lines |-> r.lines]]
  /\ UNCHANGED others

RenderInit ==
  /\ render = NoRender
  /\ cmd = NoCmd
  /\ args = [fileNames |-> ArrayOf(<<>>), options |-> Undefined, callback |-> Function]
  /\ fileNames = <<>>
  /\ callerStreams = NoFileStreams
  /\ globalPromise = "function"
  /\ Fresh

RenderNext ==
  \/ Construct
  \/ \E a \in 1..Len(render.heap) : \E member \in MemberValues : Push(a, member)
  \/ \E a \in 1..Len(render.heap) : Pop(a)
  \/ \E a \in 1..Len(render.heap) : Shift(a)
  \/ \E a \in 1..Len(render.heap) : \E member \in MemberValues : Unshift(a, member)
  \/ \E a \in 1..Len(render.heap) : Reverse(a)
  \/ \E a \in 1..Len(render.heap) : \E start, deleteCount \in 0..MaxMembers :
        Splice(a, start, deleteCount)
  \/ \E a \in 1..Len(render.heap) : \E member \in MemberValues : Fill(a, member)
  \/ \E a \in 1..Len(render.heap) : \E target, start \in 0..MaxMembers :
        CopyWithin(a, target, start)
  \/ \E a \in 1..Len(render.heap) : Sort(a)
  \/ \E a \in 1..Len(render.heap) : \E n \in 0..MaxMembers : SetLength(a, n)
  \/ \E a \in 1..Len(render.heap) : Render(a)

RenderSpec == RenderInit /\ [][RenderNext]_vars

\* --------------------------------------------------------- command claims
\* The tokens after the two of the runtime.
ArgTokens == SubSeq(cmd.args, Len(RUNTIME_ARGS) + 1, Len(cmd.args))
DashU == {"-u", "-uu"}
StartsWithDash(arg) == Chars(arg)[1] = "-"
\* The position of the first '--', or one past the last token.
Delimiter(tokens) ==
  IF \E k \in 1..Len(tokens) : tokens[k] = "--"
  THEN CHOOSE k \in 1..Len(tokens) :
         tokens[k] = "--" /\ \A j \in 1..(k - 1) : tokens[j] # "--"
  ELSE Len(tokens) + 1
BeforeDelimiter(tokens) == SubSeq(tokens, 1, Delimiter(tokens) - 1)
AfterDelimiter(tokens) == SubSeq(tokens, Delimiter(tokens) + 1, Len(tokens))
\* Flag-shaped and not -u...
Offending(arg) == arg # "-" /\ StartsWithDash(arg) /\ arg \notin DashU
Legal(tokens) ==
  \A k \in 1..Len(BeforeDelimiter(tokens)) : ~Offending(BeforeDelimiter(tokens)[k])
ExpectedNames(tokens) ==
  LET kept == SelectSeq(BeforeDelimiter(tokens),
                        LAMBDA arg : arg = "-" \/ ~StartsWithDash(arg))
                \o AfterDelimiter(tokens)
  IN IF kept = <<>> THEN <<"-">> ELSE kept
\* The command got as far as its argument parser.
Parsing == cmd.mode = "command" /\ pc = "called" /\ ValidateCmd(CmdOptionsArg) = NoError

\* C28: for tokens without an illegal option, the names handed to the engine
\* are '-' and the tokens not starting with '-' before the first '--', in
\* order, then every token after the first '--' as it is; -u, -uu before
\* '--' and the first '--' are dropped; no names become ['-']; and '-' is
\* mapped to the input stream of the command, which the engine reads for it.
C28_ArgumentsToNames ==
  Parsing /\ Legal(ArgTokens) =>
    /\ cmd.passed = ExpectedNames(ArgTokens)
    /\ fileNames = cmd.passed
    /\ cmd.fileStreams["-"] = InStream
    /\ \A n \in Tokens \ {"-"} : cmd.fileStreams[n] = NoStream
    /\ callerStreams = cmd.fileStreams
    /\ \A k \in 1..Len(opened) :
         fileNames[opened[k]] = "-" <=> inStreamAt(opened[k]) = InStream

C28_Witness ==
  /\ Parsing
  /\ ArgTokens = <<"-uu", "--", "-u">>
  /\ cmd.passed = <<"-u">>
  /\ opened = <<1>>
  /\ createReadStream(1) \in started

\* The first offending token of tokens.
FirstOffending(tokens) ==
  BeforeDelimiter(tokens)[CHOOSE k \in 1..Len(BeforeDelimiter(tokens)) :
                            /\ Offending(BeforeDelimiter(tokens)[k])
                            /\ \A j \in 1..(k - 1) : ~Offending(BeforeDelimiter(tokens)[j])]
\* The line cites the token and ends with the usage line.
CitesThenUsage(line, arg) ==
  /\ Len(line) > Len(usage)
  /\ SubSeq(line, Len(line) - Len(usage) + 1, Len(line)) = usage
  /\ \E k \in 1..(Len(line) - Len(usage)) : line[k] = arg
  /\ Mentions([message |-> line], "illegal option -- ")

\* C29: for tokens with an illegal option before '--', the command writes one
\* message to errStream that cites the first such token and ends with the
\* usage line, nothing reaches outStream, the engine is never called, and the
\* callback of the command is called once, with null and the code 1.
C29_IllegalOption ==
  Parsing /\ ~Legal(ArgTokens) =>
    /\ Len(errLines) = 1
    /\ CitesThenUsage(errLines[1], FirstOffending(ArgTokens))
    /\ outBytes = <<>>
    /\ cmd.passed = <<>> /\ callbacks = <<>> /\ opened = <<>> /\ started = {}
    /\ ~outListener /\ listeners = {} /\ i = 0
    /\ cmd.microtasks \o cmd.reports = <<Report(NullErr, Result(1))>>
    /\ \A k \in 1..Len(cmd.reports) :
         cmd.reports[k].err = NullErr /\ cmd.reports[k].result[1] # 0

C29_Witness ==
  /\ Parsing
  /\ ArgTokens = <<"a", "-u", "--unknown">>
  /\ cmd.reports = <<Report(NullErr, Result(1))>>
  /\ errLines = <<<<"nodecat: ", "illegal option -- ", "--unknown", "\n">> \o usage>>

\* C30: every call of the engine's callback is one call of the command's
\* callback with the error null, and with the code 0 when the engine reported
\* no error and 1 when it reported any.
C30_ExitCode ==
  cmd.mode = "command" /\ cmd.passed # <<>> =>
    /\ Len(cmd.reports) = Len(callbacks)
    /\ \A k \in 1..Len(callbacks) :
         /\ cmd.reports[k].err = NullErr
         /\ cmd.reports[k].result = Result(IF callbacks[k] = NullErr THEN 0 ELSE 1)
    /\ Completed => cmd.reports # <<>>

C30_Witness ==
  /\ cmd.mode = "command"
  /\ Completed
  /\ Len(Failures) = 2
  /\ callbacks = <<errNodecat>>
  /\ errNodecat # NullErr
  /\ cmd.reports = <<Report(NullErr, Result(1))>>

\* The command completes with success.
C30_SuccessWitness ==
  /\ cmd.mode = "command"
  /\ callbacks = <<NullErr>>
  /\ outBytes # <<>>
  /\ cmd.reports = <<Report(NullErr, Result(0))>>

\* ---------------------------------------------------- more engine claims
\* The records of the result that carry no name: those of output failures
\* (the names of a finite fileNames are never undefined).
OutputRecords ==
  {k \in 1..Len(Records(errNodecat)) : Records(errNodecat)[k].fileName = NoName}

\* C34: the result holds at most one record of an output failure, that
\* record is the last one, and once it is there the result never changes.
C34_OneOutputFailureLast ==
  /\ [](~Endless => \A k \in OutputRecords : k = Len(Records(errNodecat)))
  /\ [][(~Endless /\ OutputRecords # {}) => errNodecat' = errNodecat]_vars

\* A read failure, the output failure, then a late 'error' of an input and a
\* second 'error' of outStream: the result still ends in the one output record.
C34_Witness ==
  /\ OutputRecords = {2}
  /\ Records(errNodecat)[1].fileName # NoName
  /\ lastEv.type = "outerror"
  /\ lastEv.late
  /\ inErrCount = 2
  /\ outErrCount = 2

\* The live signals of the input at position p.
SignalsAt(p) == {k \in 1..Len(signals) : signals[k].pos = p}

\* C35: an input that has ended or failed has no engine listener left, an
\* 'end' or 'error' event of a stream that is not the input being copied
\* changes nothing, each position signals at most once (so it adds at most
\* one record and moves the cursor at most once), and the result holds at
\* most one record more than there are names.
C35_ListenersReleased ==
  /\ [](/\ \A l \in listeners : SignalsAt(l.pos) = {}
        /\ \A p \in 1..Len(fileNames) : Cardinality(SignalsAt(p)) <= 1
        /\ Len(Records(errNodecat)) <= Len(fileNames) + 1)
  /\ [][(lastEv'.type \in {"end", "error"} /\ ~lastEv'.live)
         => UNCHANGED <<i, errNodecat, errLines, callbacks, opened, listeners,
                        callerStreamEnded, inCleanup, outListener>>]_vars
  /\ [][\A p \in 1..Len(fileNames) :
         (SignalsAt(p) # {} /\ i > p) => i' >= i]_vars

C35_Witness ==
  /\ signals # <<>>
  /\ signals[1].type = "error"
  /\ lastEv.type = "error"
  /\ lastEv.stream = signals[1].stream
  /\ ~lastEv.live
  /\ ~lastEv.late
  /\ i = 2
  /\ Len(Records(errNodecat)) = 1

\* C36 as stated: the callback given to nodecat is not called before the
\* call has returned.
C36_CallbackAfterReturn ==
  (lastEv.type = "call" /\ ~PromiseMode) => callbacks = <<>>

\* The part of C36 that holds: with one name or more, and for a validation
\* failure, the callback is not called before the call has returned.
C36_DeferredWhenNamed ==
  (lastEv.type = "call" /\ (~Valid \/ Get(args.fileNames, "length") # Whole(0)))
    => callbacks = <<>>

\* nodecat([], callback) has called callback(null) when it returns.
C36_DuringCall ==
  /\ lastEv.type = "call"
  /\ args.fileNames = ArrayOf(<<>>)
  /\ args.callback = Function
  /\ returned.kind = "undefined"
  /\ callbacks = <<NullErr>>
  /\ ticks = <<>>

\* The elements of a sequence.
Range(seq) == {seq[k] : k \in 1..Len(seq)}

\* One caller stream is registered under two names, and both are listed.
Aliased ==
  \E m, n \in Names :
    /\ m # n
    /\ callerStreams[m] # NoStream
    /\ callerStreams[m] = callerStreams[n]
    /\ \E p, q \in 1..Len(fileNames) : fileNames[p] = m /\ fileNames[q] = n
\* Every stream that was piped has emitted 'end', and nothing has failed.
AllEnded == started \subseteq endEmitted /\ NoFailures

\* C37 as stated: with one stream under two listed names the bytes of the
\* stream are written once, and when every stream piped has ended the
\* callback has been called.
C37_AliasedStreamCompletes ==
  (pc = "called" /\ Valid /\ Aliased /\ AllEnded)
    => /\ Completed
       /\ \A s \in CallerIds : s \in started =>
            SelectSeq(outBytes, LAMBDA b : b \in Range(StreamBytes(s))) = StreamBytes(s)

\* Without such a stream the same holds: when every stream piped has ended,
\* the callback has been called.
C37_UnaliasedCompletes ==
  (pc = "called" /\ Valid /\ ~Endless /\ ~Aliased /\ AllEnded) => Completed

\* The bytes of a stream under two names are never written twice.
C37_BytesOnce ==
  (Valid /\ Aliased /\ NoFailures) =>
    \A s \in CallerIds :
      Len(SelectSeq(outBytes, LAMBDA b : b \in Range(StreamBytes(s)))) <= DataLen

\* The stream has ended under its first name and is piped again under its
\* second: its listeners wait for an 'end' that was already emitted.
C37_Hang ==
  /\ fileNames = <<"-", "a">>
  /\ callerStreams["-"] = 1
  /\ callerStreams["a"] = 1
  /\ 1 \in endEmitted
  /\ i = 2
  /\ opened = <<1, 2>>
  /\ Listener(1, "end", 2) \in listeners
  /\ callbacks = <<>>
  /\ outBytes = StreamBytes(1)

\* fileStreams has no entry at all.
NoEntries == \A n \in DOMAIN callerStreams : callerStreams[n] = NoStream

\* C38 as stated: with no entry in fileStreams, every name the cursor has
\* passed was opened as a file, and without failures the output holds the
\* bytes of each of them.
C38_OnlyOwnEntries ==
  (pc = "called" /\ Valid /\ ~Endless /\ NoEntries) =>
    /\ \A p \in 1..i : Started(p)
    /\ (Completed /\ NoFailures) => Len(outBytes) = Len(fileNames) * DataLen

\* nodecat(['constructor'], callback) reports success and has read nothing.
C38_Skipped ==
  /\ NoEntries
  /\ fileNames = <<"constructor">>
  /\ callbacks = <<NullErr>>
  /\ opened = <<>>
  /\ outBytes = <<>>
  /\ errLines = <<>>

\* ------------------------------------------------------- rendering claims
\* The step is a push: no object is constructed and no toString is called.
Pushing ==
  /\ render' # render
  /\ render'.pushed # NoPush
  /\ render'.calls = render.calls
  /\ Len(render'.heap) = Len(render.heap)

\* C31: a newly constructed AggregateError has length 0; a push of a member
\* to an AggregateError of length n stores the member at index n and makes
\* the length n + 1, the members before it stay as they were, in their
\* order, and no other AggregateError changes.
C31_PushAppends ==
  [][/\ Len(render'.heap) > Len(render.heap) =>
          /\ length(render'.heap[Len(render'.heap)]) = 0
          /\ SubSeq(render'.heap, 1, Len(render.heap)) = render.heap
     /\ Pushing =>
          LET a == render'.pushed.agg
              n == length(render.heap[a])
          IN /\ length(render'.heap[a]) = n + 1
             /\ render'.heap[a].errors[n + 1] = render'.pushed.member
             /\ SubSeq(render'.heap[a].errors, 1, n) = render.heap[a].errors
             /\ \A b \in 1..Len(render.heap) :
                  b # a => render'.heap[b] = render.heap[b]]_vars

C31_Witness ==
  /\ Len(render.heap) = MaxAggs
  /\ render.heap[1].errors = <<NewError(1), NewError(2)>>
  /\ render.pushed = [agg |-> 1, member |-> NewError(2)]
  /\ length(render.heap[MaxAggs]) = 0

\* The last toString call from outside, and the object it was called on.
LastCall == render.last
Rendered == render.heap[LastCall.agg]
IsError(member) == member.kind = "error"

\* C32: toString of an AggregateError whose members are Errors and the
\* AggregateError itself returns, and the line of every member that is the
\* AggregateError itself is the marker '[Circular AggregateError]'.
C32_SelfMemberMarked ==
  /\ LastCall.agg # 0
  /\ \A k \in 1..length(Rendered) :
       IsError(Rendered.errors[k]) \/ Rendered.errors[k] = Ref(LastCall.agg)
  /\ \E k \in 1..length(Rendered) : Rendered.errors[k] = Ref(LastCall.agg)
  => /\ LastCall.thrown = NoError
     /\ render.level = LastCall.entry
     /\ Len(LastCall.lines) = length(Rendered) + 3
     /\ \A k \in 1..length(Rendered) :
          Rendered.errors[k] = Ref(LastCall.agg) =>
            LastCall.lines[k + 2] = Line((LastCall.entry + 1) * 4, Circular)

C32_Witness ==
  /\ LastCall.agg = 1
  /\ Rendered.errors = <<NewError(1), Ref(1)>>
  /\ LastCall.thrown = NoError
  /\ LastCall.lines[4] = Line(4, Circular)

\* The lines that are not blank.
TextLines(lines) == SelectSeq(lines, LAMBDA l : l.text # <<>>)
MemberLines(lines) == SelectSeq(lines, LAMBDA l : l.text \notin {<<>>, Header})

\* The member lines of heap[a], an aggregate at nesting depth d, from member
\* k on, with 4 spaces for each level of nesting.
RECURSIVE FourPerLevel(_, _, _, _)
FourPerLevel(heap, a, k, d) ==
  IF k > length(heap[a]) THEN <<>>
  ELSE LET member == heap[a].errors[k]
           own == IF member = Ref(a) THEN <<Line(4 * d, Circular)>>
                  ELSE IF member.kind = "ref" THEN FourPerLevel(heap, member.id, 1, d + 1)
                  ELSE <<Line(4 * d, ErrorToString(member))>>
       IN own \o FourPerLevel(heap, a, k + 1, d)

\* The lines of heap[a], an aggregate at nesting depth d, from member k on:
\* a member at depth d is indented by 4 * (1 + ... + d) spaces, the header
\* of an aggregate at depth d by 4 * (1 + ... + (d - 1)) + 4 * (d - 1).
RECURSIVE Listing(_, _, _, _)
Listing(heap, a, k, d) ==
  IF k > length(heap[a]) THEN <<>>
  ELSE LET member == heap[a].errors[k]
           own == IF member = Ref(a) THEN <<Line(2 * d * (d + 1), Circular)>>
                  ELSE IF member.kind = "ref"
                  THEN <<Line(2 * d * (d + 3), Header)>>
                         \o Listing(heap, member.id, 1, d + 1)
                  ELSE <<Line(2 * d * (d + 1), ErrorToString(member))>>
       IN own \o Listing(heap, a, k + 1, d)

\* A top-level toString call that returned.
Completes == LastCall.agg # 0 /\ LastCall.thrown = NoError /\ LastCall.entry = 0

\* C33 as stated: every member is listed once, in member order, and a member
\* of an aggregate at nesting depth d is indented by 4 * d spaces.
C33_Original ==
  Completes => MemberLines(LastCall.lines) = FourPerLevel(render.heap, LastCall.agg, 1, 1)

\* C33: the rendering is the header 'AggregateError of:' followed by the
\* rendering of every member once, in member order, each on lines of its
\* own; a member at nesting depth d is indented by 4 * (1 + ... + d) spaces
\* (4, 12, 24, ...), so deeper than the members at depth d - 1, and every
\* other line is blank.
C33_MembersListedIndented ==
  Completes =>
    /\ TextLines(LastCall.lines) =
         <<Line(0, Header)>> \o Listing(render.heap, LastCall.agg, 1, 1)
    /\ LastCall.lines[1] = EmptyLine
    /\ LastCall.lines[2] = Line(0, Header)

C33_Witness ==
  /\ Completes
  /\ LastCall.agg = 1
  /\ render.heap[1].errors = <<NewError(1), Ref(2)>>
  /\ render.heap[2].errors = <<NewError(2), Ref(2)>>
  /\ TextLines(LastCall.lines) =
       <<Line(0, Header), Line(4, ErrorToString(NewError(1))), Line(8, Header),
         Line(12, ErrorToString(NewError(2))), Line(12, Circular)>>

\* No member anywhere throws when it is converted to a string.
Convertible ==
  \A a \in 1..Len(render.heap) : \A k \in 1..length(render.heap[a]) :
    render.heap[a].errors[k] # Thrower

\* C39 as stated: whatever AggregateErrors contain whichever, toString
\* returns a rendering.
C39_RenderingTerminates ==
  LastCall.agg # 0 /\ Convertible => LastCall.thrown = NoError

\* The indirect cycle: each of two AggregateErrors contains the other.
C39_Cycle ==
  /\ LastCall.agg = 1
  /\ render.heap[1].errors = <<Ref(2)>>
  /\ render.heap[2].errors = <<Ref(1)>>
  /\ LastCall.thrown = RangeError

\* C40 as stated: between toString calls the counter level is 0.
C40_LevelRestored == render.level = 0

\* The part of C40 that holds: a toString call that returns leaves level as
\* it was on entry.
C40_RestoredOnReturn ==
  LastCall.agg # 0 /\ LastCall.thrown = NoError => render.level = LastCall.entry

\* A member threw, and the next rendering from outside starts indented.
C40_Leak ==
  /\ render.calls = 2
  /\ LastCall.entry = 1
  /\ LastCall.thrown = NoError
  /\ LastCall.lines[2] = Line(4, Header)

TypeOK ==
  /\ i \in 0..Len(fileNames)
  /\ args \in EngineArgs \cup AnyArgs
  /\ pc \in {"init", "called", "threw"}
  /\ promise.state \in {"none", "pending", "resolved", "rejected"}
  /\ Len(ticks) <= 1
====
